---- MODULE Spec2Model ----
(***************************************************************************)
(* Request-admission layer of the RAG service: the HTTP front              *)
(* (Server.ServeHTTP, Server.registerRoutes), the gate (middleware.auth,   *)
(* middleware.rateLimit) and the fixed-window rate limiter                 *)
(* (rateLimiter.allow, rateLimiter.cleanup) of internal/api.               *)
(*                                                                         *)
(* Each request is served by a worker (one goroutine per request); the     *)
(* statements of allow() and cleanup() are separate steps so that the      *)
(* clock may advance, and other goroutines may run, between them.  The     *)
(* clock is monotonic: every reading is at least the one before it.        *)
(***************************************************************************)
EXTENDS Integers, Sequences, FiniteSets, TLC

\* ---------------------------------------------------------------- bounds
MaxRate   == 2      \* configured rates explored: 0..MaxRate
MaxWindow == 2      \* configured windows explored: 1..MaxWindow (clock ticks)
MaxTicks  == 2      \* unit advances of the clock in one behaviour
MaxPauses == 1      \* long pauses of the clock in one behaviour
MaxReqs   == 3      \* requests received in one behaviour
MaxSweeps == 1      \* cleanup() runs started in one behaviour
NumWorkers == 2     \* concurrent request goroutines
MaxChunks  == 2     \* chunks the splitter returns for one text
MaxUploads == 1     \* upload requests served in one behaviour
MaxSearches == 1    \* search requests served in one behaviour
MaxChats   == 2     \* chat requests served in one behaviour
MaxEvents  == 2     \* events of one generator run

\* ------------------------------------------------------ program constants
CleanupFactor         == 5      \* middleware.go:110  rl.window*5
StatusOK              == 200
StatusUnauthorized    == 401
StatusNotFound        == 404
StatusTooManyRequests == 429
StatusBadRequest      == 400
StatusInternalServerError == 500
DefaultTopK           == 10     \* config.go: Retriever.TopK
DefaultVectorSize     == 768    \* config.go: VectorStore.VectorSize
FallbackTopK          == 10     \* Factory.Retrieve: topK <= 0

Workers == 1..NumWorkers
Sweeper == 0                    \* the goroutine that calls cleanup()
NoOwner == -1                   \* an unlocked mutex

Addrs == {"a", "b"}             \* r.RemoteAddr values
ConfigKeys == {"", "K"}         \* cfg.Server.APIKey values

NoClient == [tokens |-> -1, last |-> -1]    \* no entry in rl.clients
NoReq    == [line |-> "", addr |-> "", key |-> ""]

\* ------------------------------------------------------------ the routes
\* Server.registerRoutes: pattern -> handler and the middleware wrapped
\* around it, outermost first.
GateChainAuthFirst == <<"auth", "rateLimit">>
GateChainNoAuth == <<"rateLimit">>
GateChain == <<"rateLimit", "auth">>

NoChain == <<>>

registerRoutes ==
    [ l \in { "GET /health",
              "POST /api/v1/upload_text", "POST /api/v1/search",
              "POST /api/v1/chat",
              "POST /api/v1/documents/upload",
              "POST /api/v1/documents/search",
              "POST /api/v1/conversations/chat",
              "GET /docs/" } |->
        CASE l = "GET /health" -> [handler |-> "handleHealth", chain |-> NoChain]
          [] l = "POST /api/v1/upload_text" ->
                 [handler |-> "handleUploadText", chain |-> GateChain]
          [] l = "POST /api/v1/search" ->
                 [handler |-> "handleSearch", chain |-> GateChain]
          [] l = "POST /api/v1/chat" ->
                 [handler |-> "handleChat", chain |-> GateChain]
          [] l = "POST /api/v1/documents/upload" ->
                 [handler |-> "handleUploadTextV2", chain |-> GateChain]
          [] l = "POST /api/v1/documents/search" ->
                 [handler |-> "handleSearchV2", chain |-> GateChain]
          [] l = "POST /api/v1/conversations/chat" ->
                 [handler |-> "handleChatV2", chain |-> GateChain]
          [] OTHER -> [handler |-> "httpSwagger", chain |-> NoChain] ]

\* `r.Method == "OPTIONS"`
IsOptionsNever(l) == FALSE
IsOptions(l) == l \in {"OPTIONS /api/v1/chat", "OPTIONS /test"}

\* The header of a response: nothing set yet, and what ServeHTTP sets.
NoHeaders == [k \in {} |-> ""]
CorsHeaders ==
    [ k \in { "Access-Control-Allow-Origin", "Access-Control-Allow-Methods",
              "Access-Control-Allow-Headers" } |->
        CASE k = "Access-Control-Allow-Origin" -> "*"
          [] k = "Access-Control-Allow-Methods" -> "GET, POST, OPTIONS"
          [] OTHER -> "Content-Type" ]

\* The requests the clients send: <<request line, RemoteAddr, X-API-Key>>.
Requests ==
    { <<"POST /api/v1/chat", "a", "K">>,
      <<"POST /api/v1/chat", "a", "x">>,
      <<"POST /api/v1/chat", "b", "K">>,
      <<"POST /api/v1/documents/search", "b", "">>,
      <<"GET /health", "a", "x">>,
      <<"OPTIONS /api/v1/chat", "a", "">>,
      <<"OPTIONS /test", "a", "">>,
      <<"POST /chat", "a", "K">> }

\* clientIP := r.RemoteAddr
ClientKeyShared(r) == "a"
ClientKey(r) == r.addr

VARIABLES
    apiKey, rate, window,       \* middleware.apiKey, rateLimiter.rate/.window
    clients,                    \* rateLimiter.clients: addr -> record
    rlMu,                       \* rateLimiter.mu: owner or NoOwner
    clMu,                       \* clientLimiter.mu of each record
    now,                        \* the latest reading of the clock
    ticks, pauses,              \* how the clock got there
    pc, req,                    \* per worker: position, request
    chain, next, stage,         \* per worker: middleware around the handler `next`,
                                \*   and the index of the one running
    found, elapsed, ret,        \* per worker: locals of allow() and its result
    status, handled,            \* per worker: response status, endpoint handler run
    headers,                    \* per worker: the header of the response
    spc, todo, cur,             \* cleanup(): position, entries left, current
    admitted,                   \* history: per address, the times (less than a
                                \*   window old) at which allow() returned true
    winAdmits,                  \* history: per address, the true returns since
                                \*   its record was created or its window restarted
    lastReq,                    \* history: per address, when allow() last read
                                \*   the clock for a request from it
    shadow,                     \* history: the records (cl), and per worker the
                                \*   elapsed time and the result of allow(), of
                                \*   the same limiter when no cleanup() ever runs
    swSnap, swSeen,             \* history: entries at the start of the running
                                \*   cleanup(), and those it has examined
    nreq, nsweep                \* counters bounding a behaviour

VARIABLES
    cfgTopK, vectorSize,        \* cfg.Retriever.TopK, cfg.VectorStore.VectorSize
    collections,                \* the vector index: collection name -> size of
                                \*   its "dense" vectors
    hpc, hreq,                  \* the endpoint handler running: position, request body
    loc,                        \* its local variables
    hresp,                      \* the response it wrote
    calls, args,                \* the downstream calls it made, in order, and
                                \*   the arguments of the last call of each kind
    points,                     \* the collection in the vector index: id -> point
    written,                    \* history: id -> Document handed to Client.Upsert
    sessions,                   \* the session service: sessions created
    nextId,                     \* ids (uuid, session id) generated so far
    nh                          \* counters: requests of each kind in a behaviour

pipeVars == <<collections, cfgTopK, vectorSize, hpc, hreq, loc, hresp, calls, args, points,
              written, sessions, nextId, nh>>
cfgVars  == <<apiKey, rate, window>>
rlVars   == <<clients, rlMu, clMu>>
wkVars   == <<pc, req, chain, next, stage, found, elapsed, ret, status, handled>>
swVars   == <<spc, todo, cur>>
histVars == <<admitted, winAdmits, lastReq, shadow, swSnap, swSeen>>
clkVars  == <<now, ticks, pauses>>
vars == <<apiKey, rate, window, clients, rlMu, clMu, now, ticks, pauses, pc, req,
          chain, next, stage, found, elapsed, ret, status, handled, headers,
          spc, todo, cur,
          admitted, winAdmits, lastReq, shadow, swSnap, swSeen, nreq, nsweep,
          collections, cfgTopK, vectorSize, hpc, hreq, loc, hresp, calls, args,
          points, written, sessions, nextId, nh>>
gateVars == <<cfgVars, rlVars, clkVars, wkVars, headers, swVars, histVars, nreq,
              nsweep>>

\* newMiddleware: an empty map and the configured key, rate and window.
newMiddleware ==
    /\ apiKey \in ConfigKeys
    /\ rate \in 0..MaxRate
    /\ window \in 1..MaxWindow
    /\ clients = [a \in Addrs |-> NoClient]
    /\ rlMu = NoOwner
    /\ clMu = [a \in Addrs |-> NoOwner]

GateInit ==
    /\ newMiddleware
    /\ now = 0
    /\ ticks = 0
    /\ pauses = 0
    /\ pc = [p \in Workers |-> "idle"]
    /\ req = [p \in Workers |-> NoReq]
    /\ chain = [p \in Workers |-> NoChain]
    /\ next = [p \in Workers |-> "none"]
    /\ stage = [p \in Workers |-> 0]
    /\ found = [p \in Workers |-> FALSE]
    /\ elapsed = [p \in Workers |-> -1]
    /\ ret = [p \in Workers |-> "none"]
    /\ status = [p \in Workers |-> 0]
    /\ handled = [p \in Workers |-> "none"]
    /\ headers = [p \in Workers |-> NoHeaders]
    /\ spc = "idle"
    /\ todo = {}
    /\ cur = ""
    /\ admitted = [a \in Addrs |-> <<>>]
    /\ winAdmits = [a \in Addrs |-> 0]
    /\ lastReq = [a \in Addrs |-> -1]
    /\ shadow = [cl |-> [a \in Addrs |-> NoClient],
                 elapsed |-> [p \in Workers |-> -1],
                 ret |-> [p \in Workers |-> "none"]]
    /\ swSnap = {}
    /\ swSeen = {}
    /\ nreq = 0
    /\ nsweep = 0

\* ------------------------------------------------ the endpoint handlers' data
Digits == <<"0", "1", "2", "3", "4", "5", "6", "7", "8", "9">>

\* fmt.Sprintf("%d", n) for n >= 0
RECURSIVE Itoa(_)
Itoa(n) == IF n < 10 THEN Digits[n + 1]
                     ELSE Itoa(n \div 10) \o Digits[(n % 10) + 1]

\* the n-th id that uuid.New().String() or the session service generates
Uuid(n) == "id" \o Itoa(n)

SeqsUpTo(S, n) == UNION { [1..k -> S] : k \in 0..n }

NoMetadata == [k \in {} |-> ""]
Metadatas ==
    { NoMetadata, "author" :> "x", "content" :> "m", "chunk_index" :> "9",
      "tag" :> "" }
ChunkTexts == {"c1", "c2"}
Vectors == { <<1>>, <<1, 2>> }               \* []float32 values
VectorSizes == {1, 2}                         \* cfg.VectorStore.VectorSize
TopKConfigs == {-1, 0, 2}                     \* cfg.Retriever.TopK
NoSparse == "nil"                             \* Sparse: nil

\* A decoded request body (UploadTextRequest, SearchRequest, ChatRequest)
\* with the kind of endpoint it is sent to and the request line it came
\* with ("" when the handler is called directly, as the tests do); ok is
\* FALSE when json Decode fails.  An omitted field is its zero value.
NoBody ==
    [ line |-> "", kind |-> "", ok |-> FALSE, text |-> "", metadata |-> NoMetadata, source |-> "",
      query |-> "", top_k |-> 0, message |-> "", session_id |-> "",
      user_id |-> "" ]
UploadBodies ==
    { [NoBody EXCEPT !.kind = "upload"],
      [NoBody EXCEPT !.kind = "upload", !.ok = TRUE, !.source = "s"] } \cup
    { [NoBody EXCEPT !.kind = "upload", !.ok = TRUE, !.text = "t", !.metadata = m,
                     !.source = IF "author" \in DOMAIN m THEN "s" ELSE ""] :
        m \in Metadatas }
SearchBodies ==
    { [NoBody EXCEPT !.kind = "search"] } \cup
    { [NoBody EXCEPT !.kind = "search", !.ok = TRUE, !.query = q, !.top_k = k] :
        q \in {"", "q"}, k \in {-1, 0, 1, 3} }
ChatBodies ==
    { [NoBody EXCEPT !.kind = "chat"] } \cup
    { [NoBody EXCEPT !.kind = "chat", !.ok = TRUE, !.message = m, !.session_id = sid,
                     !.user_id = u] :
        m \in {"", "hi"}, sid \in {"", "s1"}, u \in {"", "u"} }

NoRetrieved == [nil |-> TRUE, documents |-> <<>>]
NoLoc ==
    [ ctx |-> [id |-> 0, done |-> FALSE],
      err |-> "", chunks |-> <<>>, embeddings |-> <<>>, docs |-> <<>>, chunkIDs |-> <<>>,
      topK |-> 0, queryVector |-> <<>>, results |-> <<>>,
      userID |-> "", sessionID |-> "", retrieved |-> NoRetrieved,
      warning |-> "", stream |-> <<>>, consumed |-> 0,
      responseText |-> "" ]
NoResp ==
    [ status |-> 0, error |-> "", chunk_count |-> 0, chunk_ids |-> <<>>,
      results |-> <<>>, response |-> "", session_id |-> "" ]
\* (limits is history: the limit that the latest search with no top_k of
\* its own, and the latest chat, passed to the index)
NoLimit == << >>
NoArgs ==
    [ ctx |-> <<>>, split |-> "", embed |-> <<>>, embedded |-> 0, upsert |-> <<>>,
      query |-> [vector |-> <<>>, prefetch |-> <<>>, limit |-> 0],
      create |-> [user |-> "", before |-> {}],
      ensure |-> [name |-> "", size |-> 0, before |-> << >>],
      limits |-> [search |-> NoLimit, chat |-> NoLimit],
      runner |-> <<>>,
      run |-> [user |-> "", session |-> "", message |-> ""] ]

\* cfg.VectorStore.Collection as defaultConfig() sets it.
DefaultCollection == "agenticraggo"

\* No handler is running, the collection is empty.
HandlersIdle ==
    /\ hpc = "idle"
    /\ hreq = NoBody
    /\ loc = NoLoc
    /\ hresp = NoResp
    /\ calls = <<>>
    /\ args = NoArgs
    /\ points = [i \in {} |-> NoBody]
    /\ written = [i \in {} |-> NoBody]
    /\ sessions = {}
    /\ nextId = 0
    /\ nh = [k \in {"upload", "search", "chat", "ensure", "load"} |-> 0]

\* NewServer with the built-in retriever and vector-store settings.
Init ==
    /\ GateInit
    /\ cfgTopK = DefaultTopK
    /\ vectorSize = DefaultVectorSize
    /\ collections = (DefaultCollection :> vectorSize)
    /\ HandlersIdle

\* NewServer for the handlers alone: no key, no rate limit, and any
\* retriever and vector-store settings (Load validates none of them).
HandlerInit ==
    /\ GateInit
    /\ apiKey = "" /\ rate = 0 /\ window = 1
    /\ cfgTopK \in TopKConfigs
    /\ vectorSize \in VectorSizes
    /\ collections = (DefaultCollection :> vectorSize)
    /\ HandlersIdle

\* --------------------------------------------------------------- helpers
AddrOf(p)  == ClientKey(req[p])

\* rl.mu.Lock() / cl.mu.Lock() succeed only on an unlocked mutex.
RlMuFreeNoLock == TRUE
RlMuFree == rlMu = NoOwner

ClMuFree(a) == clMu[a] = NoOwner

\* middleware.auth: `m.apiKey == ""` or `key == m.apiKey`.
AuthPassesAnyKey(k) == apiKey = "" \/ k # ""
AuthPasses(k) == apiKey = "" \/ k = apiKey

\* middleware.rateLimit: `m.rateLimiter.rate == 0`.
RateLimitDisabledNever == FALSE
RateLimitDisabled == rate = 0

\* allow: `elapsed >= rl.window`.
WindowOverStrict(e) == e > window
WindowOver(e) == e >= window

\* allow: `cl.tokens > 0`.
HasTokenOrZero(cl) == cl.tokens >= 0
HasToken(cl) == cl.tokens > 0

\* cleanup: `time.Since(cl.last) > rl.window*5`, at clock reading t.
ExpiredAtOnce(cl, t) == t - cl.last >= 0
ExpiredOneWindow(cl, t) == t - cl.last > window
Expired(cl, t) == t - cl.last > window * CleanupFactor

\* A reading of the clock: the time passed since the reading before is
\* nothing, one tick, or a long pause (the eviction age).
Pause == window * CleanupFactor
ClockReadings ==
    {now} \cup { t \in {now + 1} : ticks < MaxTicks }
          \cup { t \in {now + Pause} : pauses < MaxPauses }

\* The clock is read as t.
ReadClock(t) ==
    /\ now' = t
    /\ ticks' = IF t = now + 1 THEN ticks + 1 ELSE ticks
    /\ pauses' = IF t > now + 1 THEN pauses + 1 ELSE pauses

\* Admission times kept in the history: those less than one window old.
Recent(s, t) == SelectSeq(s, LAMBDA x : x > t - window)

\* The response of worker p is written with status st after endpoint
\* handler h (or none) has run.
Respond(p, st, h) ==
    /\ status' = [status EXCEPT ![p] = st]
    /\ handled' = [handled EXCEPT ![p] = h]
    /\ pc' = [pc EXCEPT ![p] = "done"]

\* ---------------------------------------------------- Server.ServeHTTP
\* CORS headers, the OPTIONS short cut, then the mux: an unregistered
\* pattern is answered 404, a registered one enters the middleware that
\* registerRoutes wrapped around its handler.
ServeHTTP(p, l, a, k) ==
    /\ pc[p] \in {"idle", "done"}
    /\ nreq < MaxReqs
    /\ nreq' = nreq + 1
    /\ req' = [req EXCEPT ![p] = [line |-> l, addr |-> a, key |-> k]]
    /\ ret' = [ret EXCEPT ![p] = "none"]
    /\ headers' = [headers EXCEPT ![p] = CorsHeaders]
    /\ IF IsOptions(l)
         THEN /\ Respond(p, StatusOK, "none")
              /\ chain' = [chain EXCEPT ![p] = NoChain]
              /\ next' = [next EXCEPT ![p] = "none"]
              /\ stage' = [stage EXCEPT ![p] = 0]
         ELSE IF l \notin DOMAIN registerRoutes
         THEN /\ Respond(p, StatusNotFound, "none")
              /\ chain' = [chain EXCEPT ![p] = NoChain]
              /\ next' = [next EXCEPT ![p] = "none"]
              /\ stage' = [stage EXCEPT ![p] = 0]
         ELSE /\ pc' = [pc EXCEPT ![p] = "mux"]
              /\ chain' = [chain EXCEPT ![p] = registerRoutes[l].chain]
              /\ next' = [next EXCEPT ![p] = registerRoutes[l].handler]
              /\ stage' = [stage EXCEPT ![p] = 1]
              /\ status' = [status EXCEPT ![p] = 0]
              /\ handled' = [handled EXCEPT ![p] = "none"]
    /\ UNCHANGED <<pipeVars, cfgVars, rlVars, clkVars, found, elapsed, swVars, histVars, nsweep>>

\* A caller of the package invokes m.rateLimit(next) on a request from
\* address a, as the middleware tests do.
Invoke(p, a, n) ==
    /\ pc[p] \in {"idle", "done"}
    /\ nreq < n
    /\ nreq' = nreq + 1
    /\ req' = [req EXCEPT ![p] = [line |-> "", addr |-> a, key |-> ""]]
    /\ ret' = [ret EXCEPT ![p] = "none"]
    /\ pc' = [pc EXCEPT ![p] = "mux"]
    /\ chain' = [chain EXCEPT ![p] = <<"rateLimit">>]
    /\ next' = [next EXCEPT ![p] = "next"]
    /\ stage' = [stage EXCEPT ![p] = 1]
    /\ status' = [status EXCEPT ![p] = 0]
    /\ handled' = [handled EXCEPT ![p] = "none"]
    /\ UNCHANGED <<headers, pipeVars, cfgVars, rlVars, clkVars, found, elapsed, swVars, histVars, nsweep>>

CallRateLimit(p, a) == Invoke(p, a, MaxReqs)

\* middleware.rateLimit, up to the call of allow().
MwRateLimit(p) ==
    /\ pc[p] = "mux"
    /\ stage[p] <= Len(chain[p])
    /\ chain[p][stage[p]] = "rateLimit"
    /\ IF RateLimitDisabled
         THEN /\ stage' = [stage EXCEPT ![p] = @ + 1]
              /\ pc' = pc
         ELSE /\ pc' = [pc EXCEPT ![p] = "a_lock"]
              /\ stage' = stage
    /\ UNCHANGED <<headers, pipeVars, cfgVars, rlVars, clkVars, req, chain, next, found, elapsed, ret, status,
                   handled, swVars, histVars, nreq, nsweep>>

\* middleware.auth.
MwAuth(p) ==
    /\ pc[p] = "mux"
    /\ stage[p] <= Len(chain[p])
    /\ chain[p][stage[p]] = "auth"
    /\ IF AuthPasses(req[p].key)
         THEN /\ stage' = [stage EXCEPT ![p] = @ + 1]
              /\ UNCHANGED <<pc, status, handled>>
         ELSE /\ Respond(p, StatusUnauthorized, "none")
              /\ stage' = stage
    /\ UNCHANGED <<headers, pipeVars, cfgVars, rlVars, clkVars, req, chain, next, found, elapsed, ret, swVars,
                   histVars, nreq, nsweep>>

\* The endpoint handler at the end of the chain (handleHealth, ...).
Handler(p) ==
    /\ pc[p] = "mux"
    /\ stage[p] > Len(chain[p])
    /\ Respond(p, StatusOK, next[p])
    /\ UNCHANGED <<headers, pipeVars, cfgVars, rlVars, clkVars, req, chain, next, stage, found, elapsed, ret,
                   swVars, histVars, nreq, nsweep>>

\* ---------------------------------------------------- rateLimiter.allow
\* allow() of worker p on the record that its address has when no cleanup()
\* ever runs: e is the elapsed time of that record, t the time.Now() that a
\* new or restarted window is stamped with.
ShadowAllow(p, e, t) ==
    LET a == AddrOf(p)
        cl == shadow.cl[a]
        fresh == [tokens |-> rate - 1, last |-> t]
        to == IF cl = NoClient \/ WindowOver(e) THEN fresh
              ELSE IF HasToken(cl) THEN [cl EXCEPT !.tokens = @ - 1]
              ELSE cl
        r == IF cl = NoClient \/ WindowOver(e) \/ HasToken(cl) THEN "true" ELSE "false"
    IN [shadow EXCEPT !.cl[a] = to, !.elapsed[p] = e, !.ret[p] = r]

\* rl.mu.Lock()
AllowLock(p) ==
    /\ pc[p] = "a_lock"
    /\ RlMuFree
    /\ rlMu' = p
    /\ pc' = [pc EXCEPT ![p] = "a_lookup"]
    /\ UNCHANGED <<headers, pipeVars, cfgVars, clients, clMu, clkVars, req, chain, next, stage, found, elapsed,
                   ret, status, handled, swVars, histVars, nreq, nsweep>>

\* cl, exists := rl.clients[ip]
AllowLookup(p) ==
    /\ pc[p] = "a_lookup"
    /\ found' = [found EXCEPT ![p] = clients[AddrOf(p)] # NoClient]
    /\ pc' = [pc EXCEPT ![p] =
                IF clients[AddrOf(p)] # NoClient THEN "a_cllock" ELSE "a_create"]
    /\ UNCHANGED <<headers, pipeVars, cfgVars, rlVars, clkVars, req, chain, next, stage, elapsed, ret, status,
                   handled, swVars, histVars, nreq, nsweep>>

\* !exists: a new record with rate-1 tokens, stamped time.Now(); return true.
\* (winAdmits: an insert over an entry that is there after all, which takes
\* two goroutines past the lookup together, starts no new window.)
AllowCreate(p, t) ==
    /\ pc[p] = "a_create"
    /\ ReadClock(t)
    /\ clients' = [clients EXCEPT ![AddrOf(p)] = [tokens |-> rate - 1, last |-> t]]
    /\ ret' = [ret EXCEPT ![p] = "true"]
    /\ pc' = [pc EXCEPT ![p] = "a_unlock"]
    /\ winAdmits' = [winAdmits EXCEPT ![req[p].addr] =
                        IF clients[AddrOf(p)] = NoClient THEN 1 ELSE @ + 1]
    /\ lastReq' = [lastReq EXCEPT ![req[p].addr] = t]
    /\ admitted' = [a \in Addrs |-> Recent(admitted[a], t)]
    /\ LET cl == shadow.cl[AddrOf(p)]
           e == IF cl = NoClient THEN -1 ELSE t - cl.last
       IN shadow' = ShadowAllow(p, e, t)
    /\ UNCHANGED <<headers, pipeVars, cfgVars, rlMu, clMu, req, chain, next, stage, found, elapsed,
                   status, handled, swVars, swSnap, swSeen, nreq, nsweep>>

\* cl.mu.Lock()
AllowClLock(p) ==
    /\ pc[p] = "a_cllock"
    /\ ClMuFree(AddrOf(p))
    /\ clMu' = [clMu EXCEPT ![AddrOf(p)] = p]
    /\ pc' = [pc EXCEPT ![p] = "a_elapsed"]
    /\ UNCHANGED <<headers, pipeVars, cfgVars, clients, rlMu, clkVars, req, chain, next, stage, found, elapsed,
                   ret, status, handled, swVars, histVars, nreq, nsweep>>

\* elapsed := time.Since(cl.last)
AllowElapsed(p, t) ==
    /\ pc[p] = "a_elapsed"
    /\ ReadClock(t)
    /\ elapsed' = [elapsed EXCEPT ![p] = t - clients[AddrOf(p)].last]
    /\ lastReq' = [lastReq EXCEPT ![req[p].addr] = t]
    /\ admitted' = [a \in Addrs |-> Recent(admitted[a], t)]
    /\ shadow' = [shadow EXCEPT !.elapsed[p] = t - shadow.cl[AddrOf(p)].last]
    /\ pc' = [pc EXCEPT ![p] = "a_decide"]
    /\ UNCHANGED <<headers, pipeVars, cfgVars, rlVars, req, chain, next, stage, found, ret, status, handled,
                   swVars, winAdmits, swSnap, swSeen, nreq, nsweep>>

\* elapsed >= rl.window: the window restarts at time.Now(); return true.
AllowReset(p, t) ==
    /\ pc[p] = "a_decide"
    /\ WindowOver(elapsed[p])
    /\ ReadClock(t)
    /\ clients' = [clients EXCEPT ![AddrOf(p)] = [tokens |-> rate - 1, last |-> t]]
    /\ ret' = [ret EXCEPT ![p] = "true"]
    /\ winAdmits' = [winAdmits EXCEPT ![req[p].addr] = 1]
    /\ shadow' = ShadowAllow(p, shadow.elapsed[p], t)
    /\ lastReq' = [lastReq EXCEPT ![req[p].addr] = t]
    /\ admitted' = [a \in Addrs |-> Recent(admitted[a], t)]
    /\ pc' = [pc EXCEPT ![p] = "a_clunlock"]
    /\ UNCHANGED <<headers, pipeVars, cfgVars, rlMu, clMu, req, chain, next, stage, found, elapsed, status,
                   handled, swVars, swSnap, swSeen, nreq, nsweep>>

\* inside the window: take a token and return true, or return false.
AllowTake(p) ==
    /\ pc[p] = "a_decide"
    /\ ~WindowOver(elapsed[p])
    /\ LET a == AddrOf(p) IN
       IF HasToken(clients[a])
         THEN /\ clients' = [clients EXCEPT ![a].tokens = @ - 1]
              /\ ret' = [ret EXCEPT ![p] = "true"]
              /\ winAdmits' = [winAdmits EXCEPT ![req[p].addr] = @ + 1]
         ELSE /\ ret' = [ret EXCEPT ![p] = "false"]
              /\ UNCHANGED <<clients, winAdmits>>
    /\ shadow' = ShadowAllow(p, shadow.elapsed[p], now)
    /\ pc' = [pc EXCEPT ![p] = "a_clunlock"]
    /\ UNCHANGED <<headers, pipeVars, cfgVars, rlMu, clMu, clkVars, req, chain, next, stage, found, elapsed,
                   status, handled, swVars, admitted, lastReq, swSnap, swSeen,
                   nreq, nsweep>>

\* deferred cl.mu.Unlock()
AllowClUnlock(p) ==
    /\ pc[p] = "a_clunlock"
    /\ clMu' = [clMu EXCEPT ![AddrOf(p)] = NoOwner]
    /\ pc' = [pc EXCEPT ![p] = "a_unlock"]
    /\ UNCHANGED <<headers, pipeVars, cfgVars, clients, rlMu, clkVars, req, chain, next, stage, found, elapsed,
                   ret, status, handled, swVars, histVars, nreq, nsweep>>

\* deferred rl.mu.Unlock() and the return into middleware.rateLimit at
\* time t: false is answered 429, true goes on to the next handler.
AllowUnlock(p, t) ==
    /\ pc[p] = "a_unlock"
    /\ ReadClock(t)
    /\ rlMu' = NoOwner
    /\ found' = [found EXCEPT ![p] = FALSE]
    /\ elapsed' = [elapsed EXCEPT ![p] = -1]
    /\ IF ret[p] = "true"
         THEN /\ admitted' = [a \in Addrs |->
                     Recent(IF a = req[p].addr THEN Append(admitted[a], t)
                                             ELSE admitted[a], t)]
              /\ stage' = [stage EXCEPT ![p] = @ + 1]
              /\ pc' = [pc EXCEPT ![p] = "mux"]
              /\ UNCHANGED <<status, handled>>
         ELSE /\ Respond(p, StatusTooManyRequests, "none")
              /\ admitted' = [a \in Addrs |-> Recent(admitted[a], t)]
              /\ stage' = stage
    /\ shadow' = [shadow EXCEPT !.elapsed[p] = -1, !.ret[p] = "none"]
    /\ UNCHANGED <<headers, pipeVars, cfgVars, clients, clMu, req, chain, next, ret, swVars,
                   winAdmits, lastReq, swSnap, swSeen, nreq, nsweep>>

\* -------------------------------------------------- rateLimiter.cleanup
\* rl.mu.Lock(); the range statement starts over the current entries.
CleanupLock ==
    /\ spc = "idle"
    /\ nsweep < MaxSweeps
    /\ RlMuFree
    /\ rlMu' = Sweeper
    /\ nsweep' = nsweep + 1
    /\ todo' = { a \in Addrs : clients[a] # NoClient }
    /\ swSnap' = { a \in Addrs : clients[a] # NoClient }
    /\ swSeen' = {}
    /\ spc' = "c_range"
    /\ UNCHANGED <<headers, pipeVars, cfgVars, clients, clMu, clkVars, wkVars, cur, admitted,
                   winAdmits, lastReq, shadow, nreq>>

\* next entry of the range (in any order); cl.mu.Lock()
CleanupNext(a) ==
    /\ spc = "c_range"
    /\ a \in todo
    /\ ClMuFree(a)
    /\ clMu' = [clMu EXCEPT ![a] = Sweeper]
    /\ cur' = a
    /\ spc' = "c_check"
    /\ UNCHANGED <<headers, pipeVars, cfgVars, clients, rlMu, clkVars, wkVars, todo, histVars,
                   nreq, nsweep>>

\* if time.Since(cl.last) > rl.window*5 { delete(rl.clients, ip) }
CleanupCheck(t) ==
    /\ spc = "c_check"
    /\ ReadClock(t)
    /\ clients' = IF Expired(clients[cur], t)
                    THEN [clients EXCEPT ![cur] = NoClient]
                    ELSE clients
    /\ swSeen' = swSeen \cup {cur}
    /\ admitted' = [a \in Addrs |-> Recent(admitted[a], t)]
    /\ spc' = "c_clunlock"
    /\ UNCHANGED <<headers, pipeVars, cfgVars, rlMu, clMu, wkVars, todo, cur,
                   winAdmits, lastReq, shadow, swSnap, nreq, nsweep>>

\* cl.mu.Unlock()
CleanupClUnlock ==
    /\ spc = "c_clunlock"
    /\ clMu' = [clMu EXCEPT ![cur] = NoOwner]
    /\ todo' = todo \ {cur}
    /\ cur' = ""
    /\ spc' = "c_range"
    /\ UNCHANGED <<headers, pipeVars, cfgVars, clients, rlMu, clkVars, wkVars, histVars, nreq, nsweep>>

\* end of the range; deferred rl.mu.Unlock()
CleanupUnlock ==
    /\ spc = "c_range"
    /\ todo = {}
    /\ rlMu' = NoOwner
    /\ spc' = "idle"
    /\ swSnap' = {}
    /\ swSeen' = {}
    /\ UNCHANGED <<headers, pipeVars, cfgVars, clients, clMu, clkVars, wkVars, todo, cur,
                   admitted, winAdmits, lastReq, shadow, nreq, nsweep>>

\* ------------------------------------------- the handlers' common steps
\* Server.writeJSON / Server.writeError: the response, and the handler
\* returns.
WriteJSON(body) ==
    /\ hresp' = body
    /\ hpc' = "done"

WriteError(st, message) ==
    WriteJSON([NoResp EXCEPT !.status = st, !.error = message])

\* A request reaches an endpoint handler with body b.
Begin(b, max) ==
    /\ hpc \in {"idle", "done"}
    /\ nh[b.kind] < max
    /\ nh' = [nh EXCEPT ![b.kind] = @ + 1]
    /\ hreq' = b

\* The calls of the request that arrives: none yet.
NewArgs == [NoArgs EXCEPT !.limits = args.limits]

\* r.Context() of the request that arrives: a context of its own, live.
RequestContext ==
    [id |-> nh["upload"] + nh["search"] + nh["chat"] + 1, done |-> FALSE]

\* The locals of a handler when it starts.
NewLoc == [NoLoc EXCEPT !.ctx = RequestContext]

\* The context a downstream call is given: r.Context(), named by its
\* request; SplitText takes none.
NoContext == -1
ContextBackground == NoLoc.ctx.id
Context == loc.ctx.id

\* The client goes away or the request times out: r.Context() is done.
Cancel ==
    /\ hpc \notin {"idle", "done"}
    /\ ~loc.ctx.done
    /\ loc' = [loc EXCEPT !.ctx.done = TRUE]
    /\ UNCHANGED <<gateVars, collections, cfgTopK, vectorSize, hpc, hreq, hresp, calls, args,
                   points, written, sessions, nextId, nh>>

\* The number of vectors in the embedding provider's answer, -1 for an error.
Embedded(res) == IF res.err THEN -1 ELSE Len(res.embeddings)

\* One more downstream call of kind op.
Called(op) == calls' = Append(calls, op)

\* ------------------------------------------------ Server.handleUploadText
\* `req.Text == ""`
TextMissingNever(b) == FALSE
TextMissing(b) == b.text = ""

\* Decode and validate the body.
UploadDecode(b) ==
    /\ Begin(b, MaxUploads)
    /\ loc' = NewLoc
    /\ calls' = <<>>
    /\ args' = NewArgs
    /\ IF ~b.ok THEN WriteError(StatusBadRequest, "Invalid request body")
       ELSE IF TextMissing(b)
              THEN WriteError(StatusBadRequest, "Text field is required")
              ELSE hpc' = "u_split" /\ hresp' = NoResp
    /\ UNCHANGED <<gateVars, collections, cfgTopK, vectorSize, points, written, sessions, nextId>>

\* What s.splitter.SplitText may return.
SplitResults ==
    { [err |-> TRUE, chunks |-> <<>>] } \cup
    { [err |-> FALSE, chunks |-> c] : c \in SeqsUpTo(ChunkTexts, MaxChunks) }

\* chunks, err := s.splitter.SplitText(req.Text)
UploadSplit(out) ==
    /\ hpc = "u_split"
    /\ Called("split")
    /\ args' = [args EXCEPT !.ctx = Append(@, NoContext), !.split = hreq.text]
    /\ IF out.err
         THEN /\ WriteError(StatusInternalServerError, "Failed to split text")
              /\ loc' = [loc EXCEPT !.err = "split"]
       ELSE IF Len(out.chunks) = 0
         THEN WriteError(StatusBadRequest, "No chunks generated from text") /\ loc' = loc
       ELSE /\ loc' = [loc EXCEPT !.chunks = out.chunks]
            /\ hpc' = "u_embed"
            /\ hresp' = hresp
    /\ UNCHANGED <<gateVars, collections, cfgTopK, vectorSize, hreq, points, written, sessions,
                   nextId, nh>>

\* What s.client.Models.EmbedContent may return.
EmbedResults ==
    { [err |-> TRUE, embeddings |-> <<>>] } \cup
    { [err |-> FALSE, embeddings |-> e] : e \in SeqsUpTo(Vectors, MaxChunks + 1) }

\* Service.EmbedDocuments on the provider's answer res.
EmbedDocumentsUnchecked(documents, res) ==
    IF res.err THEN [err |-> TRUE, embeddings |-> <<>>]
    ELSE [err |-> FALSE, embeddings |-> res.embeddings]
EmbedDocuments(documents, res) ==
    IF res.err THEN [err |-> TRUE, embeddings |-> <<>>]
    ELSE IF res.embeddings = <<>> \/ Len(res.embeddings) # Len(documents)
      THEN [err |-> TRUE, embeddings |-> <<>>]
      ELSE [err |-> FALSE, embeddings |-> res.embeddings]

\* embeddings, err := ...EmbedDocuments(r.Context(), chunks)
UploadEmbed(res) ==
    /\ hpc = "u_embed"
    /\ Called("embed")
    /\ args' = [args EXCEPT !.ctx = Append(@, Context), !.embed = loc.chunks, !.embedded = Embedded(res)]
    /\ LET got == EmbedDocuments(loc.chunks, res) IN
       IF got.err
         THEN /\ WriteError(StatusInternalServerError, "Failed to generate embeddings")
              /\ loc' = [loc EXCEPT !.err = "embed"]
         ELSE /\ loc' = [loc EXCEPT !.embeddings = got.embeddings]
              /\ hpc' = "u_build"
              /\ hresp' = hresp
    /\ UNCHANGED <<gateVars, collections, cfgTopK, vectorSize, hreq, points, written, sessions,
                   nextId, nh>>

\* metadata["chunk_index"] = fmt.Sprintf("%d", i), i counted from 0
ChunkIndexFromOne(i) == Itoa(i)
ChunkIndex(i) == Itoa(i - 1)

\* The metadata of chunk i: the caller's, then source, then chunk_index.
MergeMetadata(b, i) ==
    LET withSource == IF b.source # "" THEN ("source" :> b.source) @@ b.metadata
                                       ELSE b.metadata
    IN  ("chunk_index" :> ChunkIndex(i)) @@ withSource

\* The loop that prepares the Documents; chunk i gets the id-th generated id.
Document(b, i, id) ==
    [ ID |-> id, Content |-> loc.chunks[i], Metadata |-> MergeMetadata(b, i),
      Dense |-> loc.embeddings[i], Sparse |-> NoSparse ]

UploadBuild ==
    /\ hpc = "u_build"
    /\ LET n == Len(loc.chunks) IN
       /\ loc' = [loc EXCEPT
             !.chunkIDs = [i \in 1..n |-> Uuid(nextId + i)],
             !.docs = [i \in 1..n |-> Document(hreq, i, Uuid(nextId + i))]]
       /\ nextId' = nextId + n
    /\ hpc' = "u_upsert"
    /\ UNCHANGED <<gateVars, collections, cfgTopK, vectorSize, hreq, hresp, calls, args, points,
                   written, sessions, nh>>

\* ---------------------------------------------------------- Client.Upsert
\* The payload of a point: content first, then every metadata entry.
Payload(doc) ==
    [ k \in {"content"} \cup DOMAIN doc.Metadata |->
        IF k \in DOMAIN doc.Metadata THEN doc.Metadata[k] ELSE doc.Content ]

\* The number of documents among the first i that come without an id.
RECURSIVE Unnamed(_, _)
Unnamed(docs, i) ==
    IF i = 0 THEN 0
    ELSE Unnamed(docs, i - 1) + (IF docs[i].ID = "" THEN 1 ELSE 0)

\* The PointStructs built from docs when `free` ids have been generated.
PointStructs(docs, free) ==
    [ i \in 1..Len(docs) |->
        [ id |-> IF docs[i].ID = "" THEN Uuid(free + Unnamed(docs, i))
                                     ELSE docs[i].ID,
          payload |-> Payload(docs[i]),
          dense |-> docs[i].Dense,
          sparse |-> docs[i].Sparse ] ]

\* The UpsertPoints requests sent for the points: one, with all of them.
UpsertBatchesPerPoint(pts) == [ i \in 1..Len(pts) |-> <<pts[i]>> ]
UpsertBatches(pts) == << pts >>

\* The collection after the first n of pts are stored (a later point with
\* the same id replaces an earlier one).
RECURSIVE Stored(_, _, _)
Stored(coll, pts, n) ==
    IF n = 0 THEN coll
    ELSE (pts[n].id :> pts[n]) @@ Stored(coll, pts, n - 1)

\* if err := s.qdrant.Upsert(...): the index answers ok or fails, and on a
\* failure it may have stored any number of the points.
UploadUpsert(ok, applied) ==
    /\ hpc = "u_upsert"
    /\ LET pts == PointStructs(loc.docs, nextId)
           batches == UpsertBatches(pts)
       IN
       /\ applied \in 0..Len(pts)
       /\ ok => applied = Len(pts)
       /\ calls' = calls \o [ i \in 1..Len(batches) |-> "upsert" ]
       /\ args' = [args EXCEPT !.ctx = @ \o [ i \in 1..Len(batches) |-> Context ],
                             !.upsert = batches[Len(batches)]]
       /\ nextId' = nextId + Unnamed(loc.docs, Len(loc.docs))
       /\ written' = [ id \in DOMAIN written \cup { pts[i].id : i \in 1..Len(pts) } |->
                         IF \E i \in 1..Len(pts) : pts[i].id = id
                           THEN loc.docs[CHOOSE i \in 1..Len(pts) :
                                    /\ pts[i].id = id
                                    /\ \A j \in 1..Len(pts) : pts[j].id = id => j <= i]
                           ELSE written[id] ]
       /\ points' = Stored(points, pts, applied)
       /\ IF ok
            THEN WriteJSON([NoResp EXCEPT !.status = StatusOK,
                                          !.chunk_count = Len(loc.chunks),
                                          !.chunk_ids = loc.chunkIDs])
            ELSE WriteError(StatusInternalServerError, "Failed to store documents")
       /\ loc' = [loc EXCEPT !.err = IF ok THEN "" ELSE "upsert"]
    /\ UNCHANGED <<gateVars, collections, cfgTopK, vectorSize, hreq, sessions, nh>>

\* ---------------------------------------------------- Server.handleSearch
\* `req.Query == ""`
QueryMissing(b) == b.query = ""

\* topK := req.TopK; if topK <= 0 { topK = s.cfg.Retriever.TopK }
SearchTopKNegativeOnly(k) == IF k < 0 THEN cfgTopK ELSE k
SearchTopK(k) == IF k <= 0 THEN cfgTopK ELSE k

\* uint64(n) of an int n, as four 16-bit limbs, most significant first
\* (two's complement for a negative n).
Limb == 65536
Uint64(n) ==
    IF n >= 0 THEN << 0, 0, 0, n % Limb >>
              ELSE << Limb - 1, Limb - 1, Limb - 1, (Limb + n) % Limb >>

\* k <= u for a length k and a uint64 u
AtMost(k, u) == u[1] > 0 \/ u[2] > 0 \/ u[3] > 0 \/ k <= u[4]

\* Decode and validate the body, default top_k.
SearchDecode(b) ==
    /\ Begin(b, MaxSearches)
    /\ calls' = <<>>
    /\ args' = NewArgs
    /\ IF ~b.ok
         THEN WriteError(StatusBadRequest, "Invalid request body") /\ loc' = NewLoc
       ELSE IF QueryMissing(b)
         THEN WriteError(StatusBadRequest, "Query field is required") /\ loc' = NewLoc
       ELSE /\ loc' = [NewLoc EXCEPT !.topK = SearchTopK(b.top_k)]
            /\ hpc' = "s_embed"
            /\ hresp' = NoResp
    /\ UNCHANGED <<gateVars, collections, cfgTopK, vectorSize, points, written, sessions, nextId>>

\* Service.EmbedQuery on the provider's answer res.
EmbedQuery(res) ==
    IF res.err \/ Len(res.embeddings) = 0
      THEN [err |-> TRUE, vector |-> <<>>]
      ELSE [err |-> FALSE, vector |-> res.embeddings[1]]

\* What the provider may return for one query.
QueryEmbedResults ==
    { [err |-> TRUE, embeddings |-> <<>>] } \cup
    { [err |-> FALSE, embeddings |-> e] : e \in SeqsUpTo(Vectors, 1) }

\* queryVector, err := ...EmbedQuery(r.Context(), req.Query)
SearchEmbed(res) ==
    /\ hpc = "s_embed"
    /\ Called("embed")
    /\ args' = [args EXCEPT !.ctx = Append(@, Context), !.embed = <<hreq.query>>, !.embedded = Embedded(res)]
    /\ LET got == EmbedQuery(res) IN
       IF got.err
         THEN /\ WriteError(StatusInternalServerError,
                            "Failed to generate query embedding")
              /\ loc' = [loc EXCEPT !.err = "embed"]
         ELSE /\ loc' = [loc EXCEPT !.queryVector = got.vector]
              /\ hpc' = "s_query"
              /\ hresp' = hresp
    /\ UNCHANGED <<gateVars, collections, cfgTopK, vectorSize, hreq, points, written, sessions,
                   nextId, nh>>

\* ----------------------------------------------------- Client.HybridSearch
\* The QueryPoints request: a dense prefetch, a sparse one if a sparse
\* vector is given, each limited to topK, fused with limit topK.
QueryPoints(denseVector, sparseVector, topK) ==
    [ vector |-> denseVector,
      prefetch |-> IF sparseVector # NoSparse
                     THEN << [using |-> "dense", limit |-> topK],
                             [using |-> "sparse", limit |-> topK] >>
                     ELSE << [using |-> "dense", limit |-> topK] >>,
      limit |-> topK ]

\* What the index may answer to a query with limit lim: an error, or some
\* of the stored points, each once, at most lim of them, with payload.
RECURSIVE SeqsOf(_)
SeqsOf(S) ==
    IF S = {} THEN { <<>> }
    ELSE { <<>> } \cup
         UNION { { <<x>> \o t : t \in SeqsOf(S \ {x}) } : x \in S }

QueryAnswers(lim) ==
    { [err |-> TRUE, result |-> <<>>] } \cup
    { [err |-> FALSE, result |-> [i \in 1..Len(q) |-> points[q[i]]]] :
        q \in { q \in SeqsOf(DOMAIN points) : AtMost(Len(q), lim) } }

\* The SearchResult of a returned point: the id, the content entry of the
\* payload as Content, every other non-empty string entry in Payload.
KeepsValue(v) == v # ""

SearchResult(point, rank) ==
    [ ID |-> point.id,
      Score |-> rank,
      Content |-> IF "content" \in DOMAIN point.payload
                     /\ KeepsValue(point.payload["content"])
                    THEN point.payload["content"] ELSE "",
      Payload |-> [ k \in { k \in DOMAIN point.payload \ {"content"} :
                              KeepsValue(point.payload[k]) } |->
                      point.payload[k] ] ]

HybridSearch(ans) ==
    IF ans.err THEN [err |-> TRUE, results |-> <<>>]
    ELSE [err |-> FALSE,
          results |-> [i \in 1..Len(ans.result) |-> SearchResult(ans.result[i], i)]]

\* The items of the search response, one per result, in order.
SearchResultItem(r) ==
    [ id |-> r.ID, content |-> r.Content, score |-> r.Score,
      metadata |-> r.Payload ]

\* results, err := s.qdrant.HybridSearch(..., queryVector, nil, uint64(topK))
SearchQuery(ans) ==
    /\ hpc = "s_query"
    /\ Called("query")
    /\ args' = [args EXCEPT !.ctx = Append(@, Context),
                  !.query = QueryPoints(loc.queryVector, NoSparse, Uint64(loc.topK)),
                  !.limits.search = IF hreq.top_k <= 0 THEN Uint64(loc.topK) ELSE @]
    /\ LET got == HybridSearch(ans) IN
       IF got.err
         THEN /\ WriteError(StatusInternalServerError, "Search failed")
              /\ loc' = [loc EXCEPT !.err = "query"]
         ELSE /\ loc' = [loc EXCEPT !.results = got.results]
              /\ WriteJSON([NoResp EXCEPT
                   !.status = StatusOK,
                   !.results = [i \in 1..Len(got.results) |->
                                   SearchResultItem(got.results[i])]])
    /\ UNCHANGED <<gateVars, collections, cfgTopK, vectorSize, hreq, points, written, sessions,
                   nextId, nh>>

\* ------------------------------------------------------ Server.handleChat
\* userID := req.UserID; if userID == "" { userID = "default_user" }
UserIDRaw(b) == b.user_id
UserID(b) == IF b.user_id = "" THEN "default_user" ELSE b.user_id

\* Decode and validate the body, default the user id.
ChatDecode(b) ==
    /\ Begin(b, MaxChats)
    /\ calls' = <<>>
    /\ args' = NewArgs
    /\ IF ~b.ok
         THEN WriteError(StatusBadRequest, "Invalid request body") /\ loc' = NewLoc
       ELSE IF b.message = ""
         THEN WriteError(StatusBadRequest, "Message field is required") /\ loc' = NewLoc
       ELSE /\ loc' = [NewLoc EXCEPT !.userID = UserID(b), !.sessionID = b.session_id]
            /\ hpc' = IF b.session_id = "" THEN "c_create" ELSE "c_embed"
            /\ hresp' = NoResp
    /\ UNCHANGED <<gateVars, collections, cfgTopK, vectorSize, points, written, sessions, nextId>>

\* The id the session service gives the next session it creates.
SessionId(n) == "s" \o Itoa(n)

\* resp, err := sessionService.Create(ctx, ...): the service fails, or
\* creates one session for the user and returns it.
ChatCreate(ok) ==
    /\ hpc = "c_create"
    /\ Called("create")
    /\ args' = [args EXCEPT !.ctx = Append(@, Context), !.create = [user |-> loc.userID,
                                        before |-> { x.id : x \in sessions }]]
    /\ IF ~ok
         THEN /\ WriteError(StatusInternalServerError, "Failed to create session")
              /\ loc' = [loc EXCEPT !.err = "create"]
              /\ sessions' = sessions
         ELSE LET id == SessionId(Cardinality(sessions) + 1) IN
              /\ sessions' = sessions \cup { [id |-> id, user |-> loc.userID] }
              /\ loc' = [loc EXCEPT !.sessionID = id]
              /\ hpc' = "c_embed"
              /\ hresp' = hresp
    /\ UNCHANGED <<gateVars, collections, cfgTopK, vectorSize, hreq, points, written, nextId, nh>>

\* --------------------------------------------------------- Factory.Retrieve
\* topK := f.cfg.Retriever.TopK; if topK <= 0 { topK = 10 }
RetrieveTopK == IF cfgTopK <= 0 THEN FallbackTopK ELSE cfgTopK

\* queryVector, err := f.embedding.EmbedQuery(ctx, query); an error makes
\* Retrieve return nil, which handleChat logs and passes on.
RetrieveEmbed(res) ==
    /\ hpc = "c_embed"
    /\ Called("embed")
    /\ args' = [args EXCEPT !.ctx = Append(@, Context), !.embed = <<hreq.message>>, !.embedded = Embedded(res)]
    /\ LET got == EmbedQuery(res) IN
       IF got.err
         THEN /\ loc' = [loc EXCEPT !.err = "embed", !.retrieved = NoRetrieved,
                                    !.warning = "retrieval failed"]
              /\ hpc' = "c_runner"
         ELSE /\ loc' = [loc EXCEPT !.queryVector = got.vector]
              /\ hpc' = "c_query"
    /\ UNCHANGED <<gateVars, collections, cfgTopK, vectorSize, hreq, hresp, points, written,
                   sessions, nextId, nh>>

\* results, err := f.qdrant.HybridSearch(..., queryVector, nil, uint64(topK))
RetrieveQuery(ans) ==
    /\ hpc = "c_query"
    /\ Called("query")
    /\ args' = [args EXCEPT !.ctx = Append(@, Context),
                  !.query = QueryPoints(loc.queryVector, NoSparse, Uint64(RetrieveTopK)),
                  !.limits.chat = Uint64(RetrieveTopK)]
    /\ LET got == HybridSearch(ans) IN
       IF got.err
         THEN loc' = [loc EXCEPT !.err = "query", !.retrieved = NoRetrieved,
                                 !.warning = "retrieval failed"]
         ELSE loc' = [loc EXCEPT !.retrieved = [nil |-> FALSE,
                                                documents |-> got.results]]
    /\ hpc' = "c_runner"
    /\ UNCHANGED <<gateVars, collections, cfgTopK, vectorSize, hreq, hresp, points, written,
                   sessions, nextId, nh>>

\* -------------------------------------------------------- Factory.NewRunner
\* `retrieved != nil && len(retrieved.Documents) > 0`
HasKnowledgeAlways(retrieved) == TRUE
HasKnowledge(retrieved) == ~retrieved.nil /\ Len(retrieved.documents) > 0

\* The agent's instruction, in sections: the configured instruction, the
\* retrieved-knowledge section with one entry per document if there is
\* anything retrieved, and the strategy.
Instruction(retrieved) ==
    << "cfg.Agent.Instruction" >>
    \o (IF HasKnowledge(retrieved)
          THEN << "## Retrieved Knowledge Base Documents" >>
               \o [ i \in 1..Len(retrieved.documents) |->
                      retrieved.documents[i].Content ]
          ELSE << >>)
    \o << "STRATEGY" >>

\* runner, err := s.agentFactory.NewRunner(ctx, "agentic_rag_go", retrieved);
\* llmagent.New or runner.New may fail.
ChatNewRunner(ok) ==
    /\ hpc = "c_runner"
    /\ Called("newrunner")
    /\ args' = [args EXCEPT !.ctx = Append(@, Context), !.runner = Instruction(loc.retrieved)]
    /\ IF ~ok
         THEN /\ WriteError(StatusInternalServerError, "Failed to create runner")
              /\ loc' = [loc EXCEPT !.err = "newrunner"]
         ELSE /\ loc' = [loc EXCEPT !.err = ""]
              /\ hpc' = "c_run"
              /\ hresp' = hresp
    /\ UNCHANGED <<gateVars, collections, cfgTopK, vectorSize, hreq, points, written, sessions,
                   nextId, nh>>

\* ------------------------------------------------- handleChat: run the agent
\* An event of runner.Run: an error, a response without content, or a
\* response whose content has text parts (some may be empty).
ErrorEvent == [err |-> TRUE, nil |-> TRUE, parts |-> << >>]
NilEvent == [err |-> FALSE, nil |-> TRUE, parts |-> << >>]
Events ==
    { ErrorEvent, NilEvent,
      [err |-> FALSE, nil |-> FALSE, parts |-> << "a" >>],
      [err |-> FALSE, nil |-> FALSE, parts |-> << "", "b" >>] }
Streams == SeqsUpTo(Events, MaxEvents)

\* runner.Run(ctx, userID, sessionID, userMsg, agent.RunConfig{}): the
\* generator is started; st is what it will yield if read to the end.
ChatRun(st) ==
    /\ hpc = "c_run"
    /\ Called("run")
    /\ args' = [args EXCEPT !.ctx = Append(@, Context), !.run = [user |-> loc.userID, session |-> loc.sessionID,
                                     message |-> hreq.message]]
    /\ loc' = [loc EXCEPT !.stream = st, !.consumed = 0, !.responseText = ""]
    /\ hpc' = "c_loop"
    /\ UNCHANGED <<gateVars, collections, cfgTopK, vectorSize, hreq, hresp, points, written,
                   sessions, nextId, nh>>

\* `if err != nil`
AgentErrorNever(e) == FALSE
AgentError(e) == e.err

\* The text one event adds: its non-empty text parts, in order.
RECURSIVE PartsText(_)
PartsText(parts) ==
    IF parts = << >> THEN ""
    ELSE (IF Head(parts) # "" THEN Head(parts) ELSE "") \o PartsText(Tail(parts))

\* One turn of the `for event, err := range` loop, or its end.
ChatLoop ==
    /\ hpc = "c_loop"
    /\ IF loc.consumed < Len(loc.stream)
         THEN LET e == loc.stream[loc.consumed + 1] IN
              IF AgentError(e)
                THEN /\ WriteError(StatusInternalServerError, "Agent error")
                     /\ loc' = [loc EXCEPT !.consumed = @ + 1, !.err = "run"]
                ELSE /\ loc' = [loc EXCEPT
                           !.consumed = @ + 1,
                           !.responseText =
                               IF e.nil THEN @ ELSE @ \o PartsText(e.parts)]
                     /\ UNCHANGED <<hpc, hresp>>
         ELSE /\ WriteJSON([NoResp EXCEPT !.status = StatusOK,
                                          !.response = loc.responseText,
                                          !.session_id = loc.sessionID])
              /\ loc' = loc
    /\ UNCHANGED <<gateVars, collections, cfgTopK, vectorSize, hreq, calls, args, points, written,
                   sessions, nextId, nh>>

\* ------------------------------------------- the mux and the handlers
\* A request no pattern matches: the mux answers 404 and no handler runs.
NotFound(b) ==
    /\ Begin(b, CASE b.kind = "upload" -> MaxUploads
                  [] b.kind = "search" -> MaxSearches
                  [] OTHER -> MaxChats)
    /\ WriteJSON([NoResp EXCEPT !.status = StatusNotFound,
                                !.error = "404 page not found"])
    /\ loc' = NoLoc
    /\ calls' = <<>>
    /\ args' = NewArgs
    /\ UNCHANGED <<gateVars, collections, cfgTopK, vectorSize, points, written, sessions, nextId>>

\* The second set of handlers: each calls the first.
handleUploadTextV2(b) == UploadDecode(b)
handleSearchV2(b) == SearchDecode(b)
handleChatV2Absent(b) == NotFound(b)
handleChatV2(b) == ChatDecode(b)

\* The handler function h runs on a request with body b.
Handle(h, b) ==
    CASE h = "handleUploadText" -> UploadDecode(b)
      [] h = "handleSearch" -> SearchDecode(b)
      [] h = "handleChat" -> ChatDecode(b)
      [] h = "handleUploadTextV2" -> handleUploadTextV2(b)
      [] h = "handleSearchV2" -> handleSearchV2(b)
      [] h = "handleChatV2" -> handleChatV2(b)
      [] OTHER -> FALSE

\* s.mux.ServeHTTP for request line l with body b, with the gate open; the
\* request is remembered under the line `as`.
RouteAs(l, as, b) ==
    IF l \in DOMAIN registerRoutes
      THEN Handle(registerRoutes[l].handler, [b EXCEPT !.line = as])
      ELSE NotFound([b EXCEPT !.line = as])

Route(l, b) == RouteAs(l, l, b)

\* The POST request lines the clients try for each endpoint: the path
\* under /api/v1, its second path under /api/v1, and the path without
\* the prefix.
Paths ==
    { [kind |-> "upload", v1 |-> "POST /api/v1/upload_text",
       second |-> "POST /api/v1/documents/upload", bare |-> "POST /upload_text"],
      [kind |-> "search", v1 |-> "POST /api/v1/search",
       second |-> "POST /api/v1/documents/search", bare |-> "POST /search"],
      [kind |-> "chat", v1 |-> "POST /api/v1/chat",
       second |-> "POST /api/v1/conversations/chat", bare |-> "POST /chat"] }
Bodies(kind) ==
    CASE kind = "upload" -> UploadBodies
      [] kind = "search" -> SearchBodies
      [] OTHER -> ChatBodies

\* ------------------------------------------------------- specifications
Receive == \E p \in Workers, r \in Requests : ServeHTTP(p, r[1], r[2], r[3])
Call == \E p \in Workers, a \in Addrs : CallRateLimit(p, a)
GateStep == \E p \in Workers : MwRateLimit(p) \/ MwAuth(p) \/ Handler(p)
LimitStepOf(p) == MwRateLimit(p) \/ Handler(p)
LimitStep == \E p \in Workers : LimitStepOf(p)
AllowStepOf(p) ==
    \/ AllowLock(p) \/ AllowLookup(p) \/ AllowClLock(p)
    \/ AllowTake(p) \/ AllowClUnlock(p)
    \/ \E t \in ClockReadings :
          AllowCreate(p, t) \/ AllowElapsed(p, t) \/ AllowReset(p, t)
            \/ AllowUnlock(p, t)
AllowStep == \E p \in Workers : AllowStepOf(p)
CleanupStep ==
    \/ CleanupLock \/ (\E a \in Addrs : CleanupNext(a))
    \/ (\E t \in ClockReadings : CleanupCheck(t))
    \/ CleanupClUnlock \/ CleanupUnlock

\* The rate limiter under the callers the package allows: goroutines that
\* run m.rateLimit(next) and a goroutine that runs cleanup().
LimiterInit == Init /\ apiKey = ""
Next == Call \/ LimitStep \/ AllowStep \/ CleanupStep
Spec == LimiterInit /\ [][Next]_vars

\* One client: a single goroutine sends the requests of one address one
\* after the other, as the sequential middleware tests do, while cleanup()
\* may run beside it.
Client == CHOOSE p \in Workers : \A q \in Workers : p <= q
ClientAddr == "a"
\* (enough requests to go past two full windows at the largest rate)
ClientCall == Invoke(Client, ClientAddr, 2 * MaxRate + 2)
ClientNext ==
    ClientCall \/ LimitStepOf(Client) \/ AllowStepOf(Client) \/ CleanupStep
ClientSpec == LimiterInit /\ [][ClientNext]_vars

\* The endpoint handlers called one request after the other, with the
\* splitter, the embedder, the vector index, the session service and the
\* generator answering as they may.
UploadWork ==
    \/ (\E out \in SplitResults : UploadSplit(out))
    \/ (\E res \in EmbedResults : UploadEmbed(res))
    \/ UploadBuild
    \/ (\E ok \in BOOLEAN, applied \in 0..MaxChunks : UploadUpsert(ok, applied))
UploadStep ==
    \/ (\E b \in UploadBodies : UploadDecode(b))
    \/ UploadWork
SearchWork ==
    \/ (\E res \in QueryEmbedResults : SearchEmbed(res))
    \/ (\E ans \in QueryAnswers(Uint64(loc.topK)) : SearchQuery(ans))
SearchStep ==
    \/ (\E b \in SearchBodies : SearchDecode(b))
    \/ SearchWork
HandlerNext == UploadStep \/ SearchStep
HandlerSpec == HandlerInit /\ [][HandlerNext]_vars

\* The chat endpoint called one request after the other, on a collection
\* that is empty or holds one Document stored by an earlier upload.
StoredEarlier ==
    << [ ID |-> Uuid(1), Content |-> "c1", Metadata |-> ("chunk_index" :> "0"),
         Dense |-> <<1>>, Sparse |-> NoSparse ] >>
ChatInit ==
    /\ GateInit /\ apiKey = "" /\ rate = 0 /\ window = 1
    /\ cfgTopK \in TopKConfigs
    /\ vectorSize = 1
    /\ collections = (DefaultCollection :> vectorSize)
    /\ hpc = "idle" /\ hreq = NoBody /\ loc = NoLoc /\ hresp = NoResp
    /\ calls = <<>> /\ args = NoArgs
    /\ sessions = {}
    /\ nh = [k \in {"upload", "search", "chat", "ensure", "load"} |-> 0]
    /\ \E n \in 0..1 :
          /\ points = Stored([i \in {} |-> NoBody], PointStructs(StoredEarlier, 0), n)
          /\ written = [ id \in { StoredEarlier[i].ID : i \in 1..n } |-> StoredEarlier[1] ]
          /\ nextId = n
ChatWork ==
    \/ (\E ok \in BOOLEAN : ChatCreate(ok))
    \/ (\E res \in QueryEmbedResults : RetrieveEmbed(res))
    \/ (\E ans \in QueryAnswers(Uint64(RetrieveTopK)) : RetrieveQuery(ans))
    \/ (\E ok \in BOOLEAN : ChatNewRunner(ok))
    \/ (\E st \in Streams : ChatRun(st))
    \/ ChatLoop
ChatStep ==
    \/ (\E b \in ChatBodies : ChatDecode(b))
    \/ ChatWork
ChatSpec == ChatInit /\ [][ChatStep]_vars

\* The endpoint handlers with clients that may go away while their request
\* is served.  A behaviour has uploads and searches, or chats.
CancelInit == HandlerInit \/ ChatInit
CancelNext ==
    \/ (nh["chat"] = 0 /\ HandlerNext)
    \/ (nh["upload"] = 0 /\ nh["search"] = 0 /\ ChatStep)
    \/ Cancel
CancelSpec == CancelInit /\ [][CancelNext]_vars

\* The endpoints reached through the mux on every path the clients try,
\* with the gate open.  A behaviour has uploads and searches, or chats.
Arrive ==
    \E pa \in Paths : \E b \in Bodies(pa.kind) :
        /\ IF pa.kind = "chat" THEN nh["upload"] = 0 /\ nh["search"] = 0
                               ELSE nh["chat"] = 0
        /\ \E l \in {pa.v1, pa.second, pa.bare} : Route(l, b)
RouteInit == HandlerInit /\ cfgTopK > 0 /\ vectorSize = 1
RouteNext == Arrive \/ UploadWork \/ SearchWork \/ ChatWork
RouteSpec == RouteInit /\ [][RouteNext]_vars

\* The server as main() starts it: NewServer, then ListenAndServe.
ServerNext == Receive \/ GateStep \/ AllowStep
ServerSpec == Init /\ [][ServerNext]_vars

\* The same server under the Go scheduler: a goroutine that serves a
\* request and can take its next step eventually takes it.  Requests
\* arrive or not as the clients please.
ServerFairSpec == ServerSpec /\ WF_vars(GateStep \/ AllowStep)

\* =================================================================
\* Properties
\* =================================================================
Decided(p) == pc[p] \in {"a_clunlock", "a_unlock"}
Done(p)    == pc[p] = "done"
Gated(p)   == Done(p) /\ "rateLimit" \in {chain[p][i] : i \in 1..Len(chain[p])}
GatedHandlers ==
    { "handleUploadText", "handleSearch", "handleChat",
      "handleUploadTextV2", "handleSearchV2", "handleChatV2" }

\* C1: with rate R >= 1 and window W > 0, a request from an address with no
\* record is admitted and leaves R-1 tokens; a request read less than W
\* after the window start is admitted while fewer than R have been admitted
\* in the window and is rejected, with 429, once R have been; a request read
\* W or more after the window start is admitted and starts a new window
\* with R-1 tokens.
C1_FixedWindow ==
    (rate >= 1 /\ window > 0) =>
      \A p \in Workers :
        /\ Decided(p) =>
             LET a == req[p].addr IN
             /\ ~found[p] =>
                  /\ ret[p] = "true"
                  /\ clients[a] = [tokens |-> rate - 1, last |-> now]
             /\ (found[p] /\ elapsed[p] >= window) =>
                  /\ ret[p] = "true"
                  /\ clients[a] = [tokens |-> rate - 1, last |-> now]
                  /\ winAdmits[a] = 1
             /\ (found[p] /\ elapsed[p] < window) =>
                  /\ ret[p] = "true" => winAdmits[a] <= rate
                  /\ ret[p] = "false" => winAdmits[a] = rate
        /\ Gated(p) =>
             /\ ret[p] = "false" <=> status[p] = StatusTooManyRequests
             /\ ret[p] = "true" => status[p] = StatusOK

\* The window of an address is restarted by one request while another
\* request of that address, rejected inside the window, has its 429.
C1_Witness ==
    \E p, q \in Workers :
        /\ p # q /\ req[p].addr = req[q].addr
        /\ Done(q) /\ status[q] = StatusTooManyRequests
        /\ pc[p] = "a_clunlock" /\ found[p] /\ elapsed[p] >= window
        /\ ret[p] = "true" /\ rate >= 1

\* C2: whatever the interleaving of the allow() calls, the calls that
\* return true for one address within one window never outnumber rate.
C2_NoExtraAdmission ==
    rate >= 1 => \A a \in Addrs : winAdmits[a] <= rate

\* An address has used its whole window while a second call for the same
\* address waits for the map lock behind the call that took the last token.
C2_Witness ==
    \E p, q \in Workers :
        /\ p # q /\ req[p].addr = req[q].addr
        /\ pc[p] = "a_lock"
        /\ pc[q] = "a_clunlock" /\ ret[q] = "true" /\ found[q]
        /\ rate >= 2 /\ winAdmits[req[q].addr] = rate

\* C3: for one address, the calls admitted within any time interval
\* shorter than one window number at most 2*rate.
C3_AtMostTwiceRate ==
    rate >= 1 => \A a \in Addrs : Len(admitted[a]) <= 2 * rate

\* 2*rate is reached at the largest rate: the admissions of one window and
\* of the next, all less than one window apart.
C3_Witness ==
    \E a \in Addrs :
        /\ rate = MaxRate
        /\ Len(admitted[a]) = 2 * rate
        /\ admitted[a][1] < clients[a].last

\* C4: a request from one address leaves the record of every other address
\* unchanged, and it is rejected only when its own address has used up its
\* rate admissions of the window, whatever the other addresses did.
C4_IndependentBudgets ==
    [][ \A p \in Workers :
          /\ (pc[p] \notin {"idle", "done"} /\ pc'[p] # pc[p]) =>
                \A b \in Addrs \ {req[p].addr} : clients'[b] = clients[b]
          /\ (ret'[p] = "false" /\ ret[p] # "false") =>
                winAdmits[req[p].addr] = rate ]_vars

\* One address is refused (429) while a request from the other address is
\* admitted.
C4_Witness ==
    \E p, q \in Workers :
        /\ req[p].addr # req[q].addr
        /\ Done(p) /\ status[p] = StatusTooManyRequests
        /\ pc[q] = "a_unlock" /\ ret[q] = "true"

\* C5: on a gated route the rate limit is checked before the key: a request
\* that allow() refuses is answered 429 whatever its key, and a request
\* answered 401 has been admitted by allow() first, which took one
\* admission of its address's window.
C5_RateLimitBeforeAuth ==
    \A p \in Workers :
        (Gated(p) /\ rate # 0) =>
            /\ ret[p] # "none"
            /\ ret[p] = "false" => status[p] = StatusTooManyRequests
            /\ status[p] = StatusUnauthorized =>
                   ret[p] = "true" /\ winAdmits[req[p].addr] >= 1

\* A request with the right key is answered 429, and a request with a wrong
\* key is answered 401 after allow() admitted it.
C5_Witness ==
    \E p, q \in Workers :
        /\ p # q /\ Gated(p) /\ Gated(q) /\ apiKey # ""
        /\ status[p] = StatusTooManyRequests /\ req[p].key = apiKey
        /\ status[q] = StatusUnauthorized /\ ret[q] = "true"

\* C6 as stated: no endpoint handler answers a request that the gate would
\* reject (a key that does not match the configured one, or no admission by
\* the rate limiter).
C6_EveryRequestGated ==
    \A p \in Workers :
        (Done(p) /\ handled[p] # "none") =>
            /\ apiKey = "" \/ req[p].key = apiKey
            /\ rate = 0 \/ ret[p] = "true"

\* C6 amended: the handlers of the six POST routes answer only requests
\* that passed the gate; GET /health and GET /docs/ are registered without
\* the gate and an OPTIONS request is answered before the mux.
C6_PostRoutesGated ==
    \A p \in Workers :
        (Done(p) /\ handled[p] \in GatedHandlers) =>
            /\ apiKey = "" \/ req[p].key = apiKey
            /\ rate = 0 \/ ret[p] = "true"

\* A POST handler has answered while a key is configured and the rate
\* limit is on.
C6_Witness ==
    \E p \in Workers :
        /\ Done(p) /\ handled[p] \in GatedHandlers
        /\ apiKey # "" /\ rate >= 1 /\ ret[p] = "true"

\* C9: with no key configured the auth check passes every request; with a
\* key K configured it passes a request if and only if its X-API-Key
\* equals K; a request it rejects is answered 401 and the wrapped handler
\* is not run.
C9_Auth ==
    \A p \in Workers :
        (Gated(p) /\ status[p] # StatusTooManyRequests) =>
            /\ status[p] = StatusUnauthorized <=>
                   (apiKey # "" /\ req[p].key # apiKey)
            /\ status[p] = StatusUnauthorized => handled[p] = "none"
            /\ status[p] # StatusUnauthorized =>
                   handled[p] = next[p] /\ status[p] = StatusOK

\* With a key configured, one request is rejected for its key and another
\* with the right key has been answered by its handler.
C9_Witness ==
    \E p, q \in Workers :
        /\ apiKey # "" /\ Gated(p) /\ Gated(q)
        /\ status[p] = StatusUnauthorized /\ req[p].key # apiKey
        /\ status[q] = StatusOK /\ req[q].key = apiKey
        /\ handled[q] \in GatedHandlers

\* C10: with rate 0 the rate-limit check admits every request and allow()
\* is never entered, so no record is created or changed.
C10_DisabledAdmitsAll ==
    rate = 0 =>
        /\ \A a \in Addrs : clients[a] = NoClient
        /\ \A p \in Workers :
             /\ pc[p] \in {"idle", "mux", "done"}
             /\ ret[p] = "none"
             /\ Done(p) => status[p] = StatusOK /\ handled[p] = "next"

\* With rate 0, all the requests of the behaviour have been made and
\* answered by the wrapped handler.
C10_Witness ==
    /\ rate = 0 /\ nreq = MaxReqs
    /\ \A p \in Workers : Done(p) /\ status[p] = StatusOK
    /\ \E p, q \in Workers : p # q /\ req[p].addr = req[q].addr

\* C7 as stated: a sweep runs again and again while the server runs, so no
\* record stays in the map for ever once its address has been idle for
\* more than 5 windows.
IdleRecord(a) ==
    /\ clients[a] # NoClient
    /\ now - lastReq[a] > CleanupFactor * window

C7_IdleRecordsRemoved == \A a \in Addrs : []<>(~IdleRecord(a))

\* C8 as stated: a sweep removes the record it examines if and only if no
\* request from its address has been handled for more than 5 windows, and
\* leaves the other records as they are.
C8_SweepRemovesIdle ==
    [][ (spc = "c_check" /\ spc' = "c_clunlock") =>
          /\ clients'[cur] = NoClient <=>
                 now' - lastReq[cur] > CleanupFactor * window
          /\ \A a \in Addrs \ {cur} : clients'[a] = clients[a] ]_vars

\* C8 amended: a sweep examines every record that is in the map when it
\* starts; it removes the record it examines if and only if more than 5
\* windows have passed since the record's window start (its creation or
\* last reset, whatever requests came later in that window), and leaves
\* every record it does not remove unchanged.
C8_SweepRemovesExpired ==
    [][ /\ (spc = "c_check" /\ spc' = "c_clunlock") =>
             /\ clients'[cur] = NoClient <=>
                    now' - clients[cur].last > CleanupFactor * window
             /\ clients'[cur] # NoClient => clients'[cur] = clients[cur]
             /\ \A a \in Addrs \ {cur} : clients'[a] = clients[a]
        /\ (spc # "idle" /\ ~(spc = "c_check" /\ spc' = "c_clunlock")) =>
             clients' = clients
        /\ (spc = "c_range" /\ spc' = "idle") => swSeen = swSnap ]_vars

\* A sweep has examined two records, removed one and kept the other.
C8_Witness ==
    /\ spc = "c_range" /\ todo = {}
    /\ swSnap = Addrs /\ swSeen = Addrs
    /\ \E a, b \in Addrs : clients[a] = NoClient /\ clients[b] # NoClient

\* ------------------------------------------- properties of the handlers
Uploading == hreq.kind = "upload"
Searching == hreq.kind = "search"

\* The number of calls of kind op the running handler has made.
RECURSIVE Count(_, _)
Count(cs, op) ==
    IF cs = <<>> THEN 0
    ELSE (IF Head(cs) = op THEN 1 ELSE 0) + Count(Tail(cs), op)

\* C11: an upload whose text is empty and a search whose query is empty
\* are each answered 400, and the handler has made no downstream call for
\* them: not to the splitter, not to the embedder, not to the index.
C11_EmptyInputRejected ==
    (\/ Uploading /\ hreq.ok /\ hreq.text = ""
     \/ Searching /\ hreq.ok /\ hreq.query = "")
      => /\ hpc = "done"
         /\ hresp.status = StatusBadRequest
         /\ calls = <<>>

\* An upload with an empty text was rejected after a search had run.
C11_Witness ==
    /\ Uploading /\ hreq.ok /\ hreq.text = ""
    /\ hresp.status = StatusBadRequest
    /\ nh["search"] = 1
    /\ hpc = "done"

\* C12: a successful upload returns one chunk id per chunk, in order: the
\* count is the number of chunks, the i-th id is the id of the Document
\* built from the i-th chunk, and the Documents went to the index in that
\* order, the i-th with chunk_index i counted from zero.
C12_OneIdPerChunk ==
    (Uploading /\ hpc = "done" /\ hresp.status = StatusOK) =>
        LET n == Len(loc.chunks) IN
        /\ n > 0
        /\ hresp.chunk_count = n
        /\ Len(hresp.chunk_ids) = n
        /\ Len(loc.docs) = n
        /\ Len(args.upsert) = n
        /\ \A i \in 1..n :
             /\ hresp.chunk_ids[i] = loc.docs[i].ID
             /\ loc.docs[i].Content = loc.chunks[i]
             /\ args.upsert[i].id = hresp.chunk_ids[i]
             /\ loc.docs[i].Metadata["chunk_index"] = Itoa(i - 1)
             /\ args.upsert[i].payload["chunk_index"] = Itoa(i - 1)
             /\ \A j \in 1..n : hresp.chunk_ids[i] = hresp.chunk_ids[j] => i = j

\* A two-chunk upload whose metadata carried its own chunk_index succeeded.
C12_Witness ==
    /\ Uploading /\ hpc = "done" /\ hresp.status = StatusOK
    /\ hresp.chunk_count = 2
    /\ loc.chunks[1] # loc.chunks[2]
    /\ "chunk_index" \in DOMAIN hreq.metadata

\* C13: every Document the upload sends to the index has a dense vector
\* whose length is the configured vector size, whatever the embedder
\* returned.
C13_DenseHasVectorSize ==
    (Uploading /\ Count(calls, "upsert") > 0) =>
        \A i \in 1..Len(args.upsert) : Len(args.upsert[i].dense) = vectorSize

\* C14: an upload is all or nothing.  When the embedder fails or answers
\* with a number of vectors other than the number of chunks, the upload
\* ends in 500 and nothing is sent to the index; every failed downstream
\* call ends in 500; and every response other than 200 carries no chunk
\* id and no chunk count.
C14_AllOrNothing ==
    Uploading =>
        /\ (Count(calls, "embed") > 0 /\ args.embedded # Len(loc.chunks))
              => /\ hpc = "done"
                 /\ hresp.status = StatusInternalServerError
                 /\ Count(calls, "upsert") = 0
        /\ (hpc = "done" /\ loc.err # "")
              => /\ hresp.status = StatusInternalServerError
                 /\ loc.err \in {"split", "embed"} => Count(calls, "upsert") = 0
        /\ (hpc = "done" /\ hresp.status = StatusOK) => loc.err = ""
        /\ hresp.status # StatusOK
              => hresp.chunk_ids = <<>> /\ hresp.chunk_count = 0

\* The embedder answered two chunks with three vectors.
C14_Witness ==
    /\ Uploading /\ hpc = "done" /\ Len(loc.chunks) = 2 /\ args.embedded = 3
    /\ hresp.status = StatusInternalServerError

\* C15: one upload makes its downstream calls one after the other, each at
\* most once: the splitter, then one embedding call with all the chunks in
\* chunk order, then one upsert call with all the Documents in order, for
\* any number of chunks.  A search likewise makes one embedding call and
\* then one index query.
C15_OneBatchEach ==
    /\ Searching => \E k \in 0..2 : calls = SubSeq(<<"embed", "query">>, 1, k)
    /\ Uploading =>
        /\ Count(calls, "embed") <= 1
        /\ Count(calls, "upsert") <= 1
        /\ \E k \in 0..3 : calls = SubSeq(<<"split", "embed", "upsert">>, 1, k)
        /\ Count(calls, "embed") = 1 => args.embed = loc.chunks
        /\ Count(calls, "upsert") = 1 =>
              /\ Len(args.upsert) = Len(loc.chunks)
              /\ \A i \in 1..Len(loc.chunks) :
                    /\ args.upsert[i].id = loc.docs[i].ID
                    /\ args.upsert[i].dense = loc.docs[i].Dense

\* A two-chunk upload went through the splitter, the embedder and the index.
C15_Witness ==
    /\ Uploading /\ hpc = "done"
    /\ Len(loc.chunks) = 2
    /\ calls = <<"split", "embed", "upsert">>
    /\ Len(args.upsert) = 2

\* C16: store/search round trip: a SearchResult returned for a point that
\* Upsert wrote has the content of the Document written and, as payload,
\* exactly the Document's metadata.
C16_RoundTrip ==
    (Searching /\ hpc = "done" /\ hresp.status = StatusOK) =>
        \A i \in 1..Len(loc.results) :
            LET r == loc.results[i] IN
            r.ID \in DOMAIN written =>
                /\ r.Content = written[r.ID].Content
                /\ r.Payload = written[r.ID].Metadata

\* C17: the limit a search passes to the index (as the uint64 the query
\* takes) is the caller's top_k when that is positive and the configured
\* default otherwise, and each sub-query has the same limit as the fused
\* result.
C17_TopKDefault ==
    (Searching /\ Count(calls, "query") > 0) =>
        LET k == IF hreq.top_k > 0 THEN hreq.top_k ELSE cfgTopK IN
        /\ args.query.limit = Uint64(k)
        /\ Len(args.query.prefetch) > 0
        /\ \A i \in 1..Len(args.query.prefetch) :
              args.query.prefetch[i].limit = args.query.limit

\* A search that left top_k out was sent with the configured default of 2.
C17_Witness ==
    /\ Searching /\ hpc = "done" /\ hresp.status = StatusOK
    /\ hreq.top_k = 0 /\ cfgTopK = 2
    /\ args.query.limit = <<0, 0, 0, 2>>
    /\ Len(hresp.results) = 2

Chatting == hreq.kind = "chat"

\* The instruction has a retrieved-knowledge section.
KnowledgeSection(instruction) ==
    \E i \in 1..Len(instruction) :
        instruction[i] = "## Retrieved Knowledge Base Documents"

\* C18: a chat whose retrieval failed, at the embedder or at the index, is
\* not aborted: the handler goes on to create the runner, the instruction
\* it creates it with has no retrieved-knowledge section, and unless the
\* runner cannot be created the generator is run.
C18_RetrievalFailureTolerated ==
    (Chatting /\ loc.warning # "") =>
        /\ hpc # "idle"
        /\ Count(calls, "embed") = 1
        /\ args.embedded <= 0 \/ Count(calls, "query") = 1
        /\ loc.retrieved.nil
        /\ hpc = "done" =>
              /\ Count(calls, "newrunner") = 1
              /\ Count(calls, "run") = 1 \/ hresp.error = "Failed to create runner"
        /\ Count(calls, "newrunner") = 1 => ~KnowledgeSection(args.runner)
        /\ Count(calls, "run") = 1 => args.run.message = hreq.message

\* A chat answered 200 with the generator's text although the index
\* failed the retrieval query on a collection that holds a Document.
C18_Witness ==
    /\ Chatting /\ hpc = "done" /\ hresp.status = StatusOK
    /\ loc.warning # ""
    /\ Count(calls, "query") = 1
    /\ DOMAIN points # {}
    /\ hresp.response = "ab"

\* The first error in a stream, 0 if it has none.
RECURSIVE FirstError(_, _)
FirstError(st, i) ==
    IF i > Len(st) THEN 0
    ELSE IF st[i].err THEN i ELSE FirstError(st, i + 1)

\* All the text parts of the first n events of a stream, in arrival order.
RECURSIVE AllParts(_, _)
AllParts(st, n) ==
    IF n = 0 THEN << >>
    ELSE AllParts(st, n - 1) \o (IF st[n].nil THEN << >> ELSE st[n].parts)

\* The non-empty strings of a sequence, concatenated in order.
RECURSIVE Concat(_)
Concat(ts) ==
    IF ts = << >> THEN ""
    ELSE Concat(SubSeq(ts, 1, Len(ts) - 1))
           \o (IF ts[Len(ts)] = "" THEN "" ELSE ts[Len(ts)])

\* C19: when the generator's stream has an error at some position the chat
\* ends in 500 with no response text, having read the stream up to the
\* error and no further; when the stream has no error the chat ends in
\* 200 and the response is all its non-empty text parts concatenated in
\* arrival order.
C19_StreamErrorOrConcat ==
    (Chatting /\ Count(calls, "run") = 1) =>
        LET st == loc.stream
            k == FirstError(st, 1)
        IN
        /\ k > 0 => loc.consumed <= k
        /\ hpc = "done" =>
             IF k > 0
               THEN /\ hresp.status = StatusInternalServerError
                    /\ hresp.response = ""
                    /\ loc.consumed = k
               ELSE /\ hresp.status = StatusOK
                    /\ loc.consumed = Len(st)
                    /\ hresp.response = Concat(AllParts(st, Len(st)))

\* The generator failed at its second event, after a first one with text.
C19_Witness ==
    /\ Chatting /\ hpc = "done" /\ Count(calls, "run") = 1
    /\ Len(loc.stream) = 2
    /\ ~loc.stream[1].nil /\ loc.stream[1].parts = << "", "b" >>
    /\ loc.stream[2].err
    /\ loc.responseText = "b"
    /\ hresp.status = StatusInternalServerError

\* C20: a chat answered 200 returns the request's session_id when it has
\* one, having created no session; otherwise it returns the id of the one
\* session it created, which did not exist before and belongs to the
\* request's user id, "default_user" when the request has none.  The
\* generator was run under the returned session id and that user id.
C20_SessionUsed ==
    (Chatting /\ hpc = "done" /\ hresp.status = StatusOK) =>
        LET user == IF hreq.user_id = "" THEN "default_user" ELSE hreq.user_id IN
        /\ IF hreq.session_id # ""
             THEN /\ hresp.session_id = hreq.session_id
                  /\ Count(calls, "create") = 0
             ELSE /\ Count(calls, "create") = 1
                  /\ args.create.user = user
                  /\ hresp.session_id # ""
                  /\ hresp.session_id \notin args.create.before
                  /\ [id |-> hresp.session_id, user |-> user] \in sessions
                  /\ { x.id : x \in sessions } =
                        args.create.before \cup { hresp.session_id }
        /\ Count(calls, "run") = 1
        /\ args.run.session = hresp.session_id
        /\ args.run.user = user

\* The second chat of a client without user id got a session of its own.
C20_Witness ==
    /\ Chatting /\ hpc = "done" /\ hresp.status = StatusOK
    /\ hreq.session_id = "" /\ hreq.user_id = ""
    /\ args.create.before # {}
    /\ hresp.session_id \notin args.create.before
    /\ args.run.user = "default_user"

\* C21: every downstream call made for a request (embedding, upsert, index
\* query, session creation, runner creation, generator run) is given the
\* context of that request and of no other, so that once the request is
\* cancelled no call made for it holds a context that is still live.
C21_CallsUnderRequestContext ==
    (hpc # "idle") =>
        /\ loc.ctx.id = nh["upload"] + nh["search"] + nh["chat"]
        /\ Len(args.ctx) = Len(calls)
        /\ \A i \in 1..Len(calls) :
             calls[i] # "split" =>
                /\ args.ctx[i] > 0
                /\ args.ctx[i] = loc.ctx.id

\* The client of a second chat went away; the chat had created a session,
\* retrieved and run the generator.
C21_Witness ==
    /\ Chatting /\ loc.ctx.done /\ loc.ctx.id = 2
    /\ calls = <<"create", "embed", "query", "newrunner", "run">>

\* C22 as stated: each endpoint is routed on its path without prefix and
\* on its /api/v1 path, and a request gets the same response and makes the
\* same state change on either.
C22_BareAndV1Agree ==
    [][ \A pa \in Paths : \A b \in Bodies(pa.kind) :
          /\ pa.bare \in DOMAIN registerRoutes
          /\ pa.v1 \in DOMAIN registerRoutes
          /\ RouteAs(pa.v1, pa.v1, b) => RouteAs(pa.bare, pa.v1, b) ]_vars

\* C22: each endpoint is routed on two paths under /api/v1, behind the
\* same gate, and a request gets the same response and makes the same
\* state change on either; its path without the prefix is not routed and
\* is answered 404 with no handler run.
C22_V1PathsAgree ==
    [][ \A pa \in Paths : \A b \in Bodies(pa.kind) :
          /\ pa.v1 \in DOMAIN registerRoutes
          /\ pa.second \in DOMAIN registerRoutes
          /\ registerRoutes[pa.v1].chain = registerRoutes[pa.second].chain
          /\ RouteAs(pa.v1, pa.v1, b) => RouteAs(pa.second, pa.v1, b)
          /\ RouteAs(pa.second, pa.second, b) =>
                RouteAs(pa.v1, pa.second, b) /\ hresp'.status # StatusNotFound
          /\ RouteAs(pa.bare, pa.bare, b) =>
                /\ hresp'.status = StatusNotFound
                /\ hpc' = "done" /\ calls' = <<>>
                /\ UNCHANGED <<points, sessions>> ]_vars

\* A chat sent to /api/v1/conversations/chat was answered 200.
C22_Witness ==
    /\ hreq.line = "POST /api/v1/conversations/chat"
    /\ hpc = "done" /\ hresp.status = StatusOK
    /\ hresp.session_id # ""

\* ------------------------------------------------ properties of the front
\* Worker p receives an OPTIONS request in this step.
OptionsArrives(p) ==
    /\ pc[p] \in {"idle", "done"}
    /\ nreq' = nreq + 1
    /\ req'[p].line \in {"OPTIONS /api/v1/chat", "OPTIONS /test"}
    /\ \A q \in Workers \ {p} : pc'[q] = pc[q] /\ req'[q] = req[q]

\* C23: every response carries the three CORS headers (origin *, methods
\* GET, POST, OPTIONS, header Content-Type), and an OPTIONS request to any
\* path is answered 200 at once: the mux, the gate and the handlers are
\* not reached and the rate limiter's state stays as it is.
C23_CorsAndOptions ==
    [][ \A p \in Workers :
          /\ pc'[p] # "idle" =>
                /\ headers'[p]["Access-Control-Allow-Origin"] = "*"
                /\ headers'[p]["Access-Control-Allow-Methods"] = "GET, POST, OPTIONS"
                /\ headers'[p]["Access-Control-Allow-Headers"] = "Content-Type"
          /\ OptionsArrives(p) =>
                /\ pc'[p] = "done"
                /\ status'[p] = StatusOK
                /\ handled'[p] = "none"
                /\ chain'[p] = NoChain /\ next'[p] = "none"
                /\ UNCHANGED <<clients, rlMu, clMu, winAdmits>> ]_vars

\* An OPTIONS request without key, to a path that is not routed, from an
\* address whose budget is used up, was answered 200 by a server with a key.
C23_Witness ==
    \E p \in Workers :
        /\ pc[p] = "done" /\ req[p].line = "OPTIONS /test" /\ req[p].key = ""
        /\ status[p] = StatusOK
        /\ apiKey = "K" /\ rate = 1
        /\ clients[req[p].addr].tokens = 0
        /\ headers[p]["Access-Control-Allow-Origin"] = "*"

\* ------------------------------------------------- Client.EnsureCollection
\* Names and dense sizes of collections, and the calls of one behaviour.
CollectionNames == {DefaultCollection, "other"}
MaxEnsures == 2

\* exists.GetResult().GetExists()
ExistsNever(name) == FALSE
Exists(name) == name \in DOMAIN collections

\* The caller (NewServer) calls EnsureCollection(ctx, name, vectorSize).
EnsureCall(name, size) ==
    /\ hpc \in {"idle", "done"}
    /\ nh["ensure"] < MaxEnsures
    /\ nh' = [nh EXCEPT !["ensure"] = @ + 1]
    /\ hpc' = "e_exists"
    /\ calls' = <<>>
    /\ args' = [NoArgs EXCEPT !.ensure = [name |-> name, size |-> size,
                                          before |-> collections]]
    /\ loc' = NoLoc
    /\ UNCHANGED <<gateVars, collections, cfgTopK, vectorSize, hreq, hresp, points,
                   written, sessions, nextId>>

\* c.collections.CollectionExists: an error is returned wrapped; a
\* collection that exists ends the call with nil.
EnsureExists(ok) ==
    /\ hpc = "e_exists"
    /\ Called("exists")
    /\ IF ~ok
         THEN loc' = [loc EXCEPT !.err = "failed to check collection"] /\ hpc' = "done"
         ELSE /\ loc' = loc
              /\ hpc' = IF Exists(args.ensure.name) THEN "done" ELSE "e_create"
    /\ UNCHANGED <<gateVars, collections, cfgTopK, vectorSize, hreq, hresp, args,
                   points, written, sessions, nextId, nh>>

\* c.collections.Create with "dense" vectors of vectorSize.
EnsureCreate(ok) ==
    /\ hpc = "e_create"
    /\ Called("createcollection")
    /\ IF ~ok
         THEN /\ loc' = [loc EXCEPT !.err = "failed to create collection"]
              /\ collections' = collections
         ELSE /\ loc' = loc
              /\ collections' = (args.ensure.name :> args.ensure.size) @@ collections
    /\ hpc' = "done"
    /\ UNCHANGED <<gateVars, cfgTopK, vectorSize, hreq, hresp, args, points, written,
                   sessions, nextId, nh>>

\* An index holding any of the collections, and a caller that ensures some.
EnsureInit ==
    /\ GateInit /\ apiKey = "" /\ rate = 0 /\ window = 1
    /\ cfgTopK = DefaultTopK
    /\ vectorSize \in VectorSizes
    /\ collections \in UNION { [D -> VectorSizes] : D \in SUBSET CollectionNames }
    /\ HandlersIdle
EnsureNext ==
    \/ (\E name \in CollectionNames : EnsureCall(name, vectorSize))
    \/ (\E ok \in BOOLEAN : EnsureExists(ok))
    \/ (\E ok \in BOOLEAN : EnsureCreate(ok))
EnsureSpec == EnsureInit /\ [][EnsureNext]_vars

Ensured == hpc = "done" /\ nh["ensure"] > 0 /\ loc.err = ""

\* C24 as stated: after EnsureCollection(name, size) returned success the
\* collection name exists with dense vectors of that size; a call that finds
\* the collection issues no create, changes nothing and returns success.
C24_EnsuredHasSize ==
    LET e == args.ensure IN
    /\ Ensured => e.name \in DOMAIN collections /\ collections[e.name] = e.size
    /\ (hpc = "done" /\ nh["ensure"] > 0 /\ e.name \in DOMAIN e.before) =>
          /\ Count(calls, "createcollection") = 0
          /\ collections = e.before
          /\ loc.err # "failed to create collection"

\* C24: after EnsureCollection(name, size) returned success the collection
\* name exists; its dense vectors have that size when the call created it.
\* A call that finds the collection issues no create, changes nothing, and
\* leaves the collection with the size it had, whatever size was asked for.
C24_EnsuredExists ==
    LET e == args.ensure IN
    /\ Ensured => e.name \in DOMAIN collections
    /\ (Ensured /\ e.name \notin DOMAIN e.before) =>
          /\ collections[e.name] = e.size
          /\ calls = <<"exists", "createcollection">>
          /\ \A n \in DOMAIN e.before : collections[n] = e.before[n]
    /\ (hpc = "done" /\ nh["ensure"] > 0 /\ e.name \in DOMAIN e.before) =>
          /\ Count(calls, "createcollection") = 0
          /\ collections = e.before
          /\ loc.err # "failed to create collection"
          /\ calls = <<"exists">>

\* A second call, for a collection that exists with another size, succeeded.
C24_Witness ==
    /\ Ensured /\ nh["ensure"] = 2
    /\ args.ensure.name \in DOMAIN args.ensure.before
    /\ args.ensure.before[args.ensure.name] # args.ensure.size
    /\ calls = <<"exists">>

\* ------------------------------------------------------------ config.Load
\* Strings that Load takes apart are sequences of one-character strings.
UpperToLower ==
    ("A" :> "a" @@ "B" :> "b" @@ "C" :> "c" @@ "D" :> "d" @@ "E" :> "e" @@ "F" :> "f" @@ "G" :> "g") @@
    ("H" :> "h" @@ "I" :> "i" @@ "J" :> "j" @@ "K" :> "k" @@ "L" :> "l" @@ "M" :> "m" @@ "N" :> "n") @@
    ("O" :> "o" @@ "P" :> "p" @@ "Q" :> "q" @@ "R" :> "r" @@ "S" :> "s" @@ "T" :> "t" @@ "U" :> "u") @@
    ("V" :> "v" @@ "W" :> "w" @@ "X" :> "x" @@ "Y" :> "y" @@ "Z" :> "z")

\* strings.ToLower, strings.Replace(s, old, new, -1), strings.TrimPrefix
ToLower(s) == [i \in DOMAIN s |-> IF s[i] \in DOMAIN UpperToLower
                                    THEN UpperToLower[s[i]] ELSE s[i]]
ReplaceAll(s, old, new) == [i \in DOMAIN s |-> IF s[i] = old THEN new ELSE s[i]]
HasPrefix(s, pre) == Len(s) >= Len(pre) /\ SubSeq(s, 1, Len(pre)) = pre
TrimPrefix(s, pre) == IF HasPrefix(s, pre) THEN SubSeq(s, Len(pre) + 1, Len(s)) ELSE s

\* The segments of a koanf key, which the delimiter separates.
RECURSIVE SplitFrom(_, _, _)
SplitFrom(s, delim, acc) ==
    IF s = <<>> THEN <<acc>>
    ELSE IF Head(s) = delim THEN <<acc>> \o SplitFrom(Tail(s), delim, <<>>)
    ELSE SplitFrom(Tail(s), delim, Append(acc, Head(s)))
Split(s, delim) == SplitFrom(s, delim, <<>>)

\* The koanf tags of the Config structs.
TagModel == <<"m", "o", "d", "e", "l">>
TagName == <<"n", "a", "m", "e">>
TagAPIKey == <<"a", "p", "i", "_", "k", "e", "y">>
TagVectorStore == <<"v", "e", "c", "t", "o", "r", "s", "t", "o", "r", "e">>
TagURL == <<"u", "r", "l">>
TagRetriever == <<"r", "e", "t", "r", "i", "e", "v", "e", "r">>
TagTopK == <<"t", "o", "p", "_", "k">>

\* Environment variables.
AppPrefix ==
    <<"A", "P", "P", "_">>
APP_MODEL_NAME ==
    <<"A", "P", "P", "_", "M", "O", "D", "E", "L", "_", "N", "A", "M", "E">>
APP_MODEL_API_KEY ==
    <<"A", "P", "P", "_", "M", "O", "D", "E", "L", "_", "A", "P", "I", "_", "K", "E", "Y">>
APP_VECTORSTORE_URL ==
    <<"A", "P", "P", "_", "V", "E", "C", "T", "O", "R", "S", "T", "O", "R", "E", "_", "U", "R", "L">>
APP_RETRIEVER_TOP_K ==
    <<"A", "P", "P", "_", "R", "E", "T", "R", "I", "E", "V", "E", "R", "_", "T", "O", "P", "_", "K">>
GOOGLE_API_KEY ==
    <<"G", "O", "O", "G", "L", "E", "_", "A", "P", "I", "_", "K", "E", "Y">>
QDRANT_URL ==
    <<"Q", "D", "R", "A", "N", "T", "_", "U", "R", "L">>

\* The fields of Config that are followed here, each by the path of its tags.
ModelName == <<TagModel, TagName>>
ModelAPIKey == <<TagModel, TagAPIKey>>
VectorStoreURL == <<TagVectorStore, TagURL>>
RetrieverTopK == <<TagRetriever, TagTopK>>
Fields == {ModelName, ModelAPIKey, VectorStoreURL, RetrieverTopK}

\* cfg := &Config{...}: the built-in defaults (numbers as their digits).
Defaults ==
    (ModelName :> "gemini-2.5-flash") @@ (ModelAPIKey :> "") @@
    (VectorStoreURL :> "localhost") @@ (RetrieverTopK :> "10")

\* What a config file and the environment may hold.
YamlValues ==
    (ModelName :> "yaml-model") @@ (ModelAPIKey :> "test-api-key-123") @@
    (VectorStoreURL :> "yaml-host") @@ (RetrieverTopK :> "5")
EnvValues ==
    (APP_MODEL_NAME :> "env-override-model") @@ (APP_MODEL_API_KEY :> "env-key") @@
    (APP_VECTORSTORE_URL :> "app-url.com") @@ (APP_RETRIEVER_TOP_K :> "7") @@
    (GOOGLE_API_KEY :> "special-google-key") @@ (QDRANT_URL :> "qdrant-url.com")
Restrict(f, D) == [x \in D |-> f[x]]

\* The callback of env.Provider("APP_", ".", ...), and the key path under
\* which koanf files the variable.
EnvKey(s) == ReplaceAll(ToLower(TrimPrefix(s, AppPrefix)), "_", ".")
EnvPath(s) == Split(EnvKey(s), ".")

\* os.Getenv
Getenv(env, name) == IF name \in DOMAIN env THEN env[name] ELSE ""

\* Load(configPath) is called: the defaults are set, k is empty.
LoadCall(yaml, env) ==
    /\ hpc = "idle"
    /\ hreq' = [yaml |-> yaml, env |-> env]
    /\ loc' = [k |-> << >>, cfg |-> Defaults]
    /\ hpc' = "l_yaml"
    /\ nh' = [nh EXCEPT !["load"] = @ + 1]
    /\ UNCHANGED <<gateVars, collections, cfgTopK, vectorSize, hresp, calls, args,
                   points, written, sessions, nextId>>

\* k.Load(file.Provider(configPath), yaml.Parser()): the keys of the file.
LoadYAML ==
    /\ hpc = "l_yaml"
    /\ loc' = [loc EXCEPT !.k = hreq.yaml @@ @]
    /\ hpc' = "l_env"
    /\ UNCHANGED <<gateVars, collections, cfgTopK, vectorSize, hreq, hresp, calls,
                   args, points, written, sessions, nextId, nh>>

\* k.Load(env.Provider("APP_", ".", cb), nil): the variables with the
\* prefix, each under the path of its transformed name, over what k holds.
LoadEnv ==
    /\ hpc = "l_env"
    /\ LET names == { n \in DOMAIN hreq.env : HasPrefix(n, AppPrefix) }
           fromEnv == [ p \in { EnvPath(n) : n \in names } |->
                          hreq.env[CHOOSE n \in names : EnvPath(n) = p] ]
       IN loc' = [loc EXCEPT !.k = fromEnv @@ @]
    /\ hpc' = "l_special"
    /\ UNCHANGED <<gateVars, collections, cfgTopK, vectorSize, hreq, hresp, calls,
                   args, points, written, sessions, nextId, nh>>

\* GOOGLE_API_KEY and QDRANT_URL are written into cfg.
LoadSpecial ==
    /\ hpc = "l_special"
    /\ LET apiKeyEnv == Getenv(hreq.env, GOOGLE_API_KEY)
           qdrantURL == Getenv(hreq.env, QDRANT_URL)
           c1 == IF apiKeyEnv # "" /\ loc.cfg[ModelAPIKey] = ""
                   THEN [loc.cfg EXCEPT ![ModelAPIKey] = apiKeyEnv] ELSE loc.cfg
           c2 == IF qdrantURL # "" THEN [c1 EXCEPT ![VectorStoreURL] = qdrantURL] ELSE c1
       IN loc' = [loc EXCEPT !.cfg = c2]
    /\ hpc' = "l_unmarshal"
    /\ UNCHANGED <<gateVars, collections, cfgTopK, vectorSize, hreq, hresp, calls,
                   args, points, written, sessions, nextId, nh>>

\* k.Unmarshal("", cfg): a field whose tag path k holds takes k's value,
\* every other field keeps what cfg has.
LoadUnmarshal ==
    /\ hpc = "l_unmarshal"
    /\ loc' = [loc EXCEPT !.cfg = [f \in Fields |->
                  IF f \in DOMAIN loc.k THEN loc.k[f] ELSE loc.cfg[f]]]
    /\ hpc' = "done"
    /\ UNCHANGED <<gateVars, collections, cfgTopK, vectorSize, hreq, hresp, calls,
                   args, points, written, sessions, nextId, nh>>

\* Load with any config file and any environment.
LoadInit ==
    /\ GateInit /\ apiKey = "" /\ rate = 0 /\ window = 1
    /\ cfgTopK = DefaultTopK
    /\ vectorSize = DefaultVectorSize
    /\ collections = << >>
    /\ HandlersIdle
LoadNext ==
    \/ (\E fs \in SUBSET Fields : \E ns \in SUBSET DOMAIN EnvValues :
            LoadCall(Restrict(YamlValues, fs), Restrict(EnvValues, ns)))
    \/ LoadYAML
    \/ LoadEnv
    \/ LoadSpecial
    \/ LoadUnmarshal
LoadSpec == LoadInit /\ [][LoadNext]_vars

\* The variable that sets a field, and the special variable that may.
AppVar ==
    (ModelName :> APP_MODEL_NAME) @@ (ModelAPIKey :> APP_MODEL_API_KEY) @@
    (VectorStoreURL :> APP_VECTORSTORE_URL) @@ (RetrieverTopK :> APP_RETRIEVER_TOP_K)
SpecialVar == (ModelAPIKey :> GOOGLE_API_KEY) @@ (VectorStoreURL :> QDRANT_URL)

\* C25: every field of the loaded configuration has the value of its APP_
\* variable when that is set, else the value of the YAML file when the file
\* sets the field, else the value of its special variable (GOOGLE_API_KEY,
\* QDRANT_URL) when there is one and it is set, else the built-in default.
C25_Precedence ==
    (hpc = "done" /\ nh["load"] > 0) =>
        \A f \in Fields :
            loc.cfg[f] =
                IF AppVar[f] \in DOMAIN hreq.env THEN hreq.env[AppVar[f]]
                ELSE IF f \in DOMAIN hreq.yaml THEN hreq.yaml[f]
                ELSE IF f \in DOMAIN SpecialVar /\ SpecialVar[f] \in DOMAIN hreq.env
                  THEN hreq.env[SpecialVar[f]]
                ELSE Defaults[f]

\* C26: the sweep does not affect admission. Every allow() returns what it
\* returns, for the same requests at the same times, when no cleanup() ever
\* runs (shadow: that limiter's records and results), wherever cleanup()
\* runs are inserted.
C26_SweepKeepsDecisions ==
    \A p \in Workers :
        pc[p] \in {"a_clunlock", "a_unlock"} => ret[p] = shadow.ret[p]

\* A request was admitted with a new record, its address's record having
\* been removed by a sweep; without the sweep it restarted that record's
\* window.
C26_Witness ==
    \E p \in Workers :
        /\ pc[p] = "a_unlock" /\ ret[p] = "true" /\ ~found[p]
        /\ shadow.elapsed[p] > window * CleanupFactor
        /\ shadow.ret[p] = "true"
        /\ nsweep > 0

\* C27: a request that allow() rejects leaves the record of its address as
\* it was (tokens 0, window start not moved) up to the return, and a request
\* whose elapsed time is the window or more is admitted, whatever was
\* rejected before it.
C27_RejectionKeepsRecord ==
    [][ \A p \in Workers :
          LET a == AddrOf(p) IN
          /\ (pc[p] = "a_decide" /\ ret'[p] = "false") =>
                /\ clients' = clients
                /\ clients[a].tokens = 0
                /\ clients[a].last = lastReq[a] - elapsed[p]
          /\ (pc[p] \in {"a_clunlock", "a_unlock"} /\ ret[p] = "false") =>
                clients' = clients
          /\ (pc[p] = "a_decide" /\ pc'[p] # "a_decide" /\ elapsed[p] >= window) =>
                /\ ret'[p] = "true"
                /\ clients'[a].tokens = rate - 1 ]_vars

\* A request of an address was answered 429, and a later request of that
\* address, a window or more after the window start, is admitted.
C27_Witness ==
    \E p, q \in Workers :
        /\ pc[q] = "done" /\ status[q] = StatusTooManyRequests
        /\ req[q].addr = req[p].addr
        /\ pc[p] = "a_clunlock" /\ ret[p] = "true" /\ elapsed[p] >= window

\* C28: with rate >= 1 the tokens of every record lie in 0..rate-1, and
\* they change only by the decrement of 1 of an admitted request inside the
\* window, or by being set to rate-1 when a record is created or its window
\* restarts.
C28_TokensInRange ==
    [][ rate >= 1 =>
          \A a \in Addrs :
            LET old == clients[a]
                new == clients'[a]
                Admits(p) == AddrOf(p) = a /\ ret'[p] = "true" /\ pc'[p] # pc[p]
            IN
            /\ new # NoClient => new.tokens >= 0 /\ new.tokens <= rate - 1
            /\ (old = NoClient /\ new # NoClient) =>
                  /\ new.tokens = rate - 1
                  /\ \E p \in Workers : Admits(p) /\ pc[p] = "a_create"
            /\ (old # NoClient /\ new # NoClient /\ new.tokens # old.tokens) =>
                  \/ /\ new.tokens = old.tokens - 1
                     /\ new.last = old.last
                     /\ \E p \in Workers :
                           Admits(p) /\ pc[p] = "a_decide" /\ elapsed[p] < window
                  \/ /\ new.tokens = rate - 1
                     /\ \E p \in Workers :
                           Admits(p) /\ pc[p] = "a_decide" /\ elapsed[p] >= window ]_vars

\* An admitted request inside the window took a token of a record that
\* started with rate - 1 of them, at a rate of 2 or more.
C28_Witness ==
    \E p \in Workers :
        /\ pc[p] = "a_clunlock" /\ ret[p] = "true" /\ found[p]
        /\ elapsed[p] < window
        /\ rate >= 2
        /\ clients[req[p].addr].tokens = rate - 2

\* The rate limiter under the Go scheduler: a goroutine inside allow() or
\* cleanup() that can take its next step eventually takes it.
MaxLockReqs == 2
LockInit == LimiterInit /\ rate >= 1
LockCall == \E p \in Workers, a \in Addrs : Invoke(p, a, MaxLockReqs)
LockNext == LockCall \/ LimitStep \/ AllowStep \/ CleanupStep
LockSpec == LockInit /\ [][LockNext]_vars
LimiterFairSpec ==
    LockSpec /\ WF_vars(CleanupStep) /\ \A p \in Workers : WF_vars(AllowStepOf(p))

InAllow(p) ==
    pc[p] \in {"a_lock", "a_lookup", "a_create", "a_cllock", "a_elapsed", "a_decide",
               "a_clunlock", "a_unlock"}
Holds(g) == {"rl.mu" : x \in {g} \cap {rlMu}} \cup { a \in Addrs : clMu[a] = g }

\* C29: allow() and cleanup() take the map lock before any record lock and
\* hold no lock once they have returned; while any of them is running one of
\* them can take a step; and with fair scheduling each call returns.
C29_LocksOrderedAndReleased ==
    /\ [](\A a \in Addrs : clMu[a] # NoOwner => rlMu = clMu[a])
    /\ [](\A p \in Workers : ~InAllow(p) \/ pc[p] = "a_lock" => Holds(p) = {})
    /\ [](spc = "idle" => Holds(Sweeper) = {})
    /\ []((spc # "idle" \/ \E p \in Workers : InAllow(p)) =>
              ENABLED (AllowStep \/ CleanupStep))
    /\ \A p \in Workers : InAllow(p) ~> ~InAllow(p)
    /\ (spc # "idle") ~> (spc = "idle")

\* cleanup() holds the map lock and the lock of a record while a request
\* of that record's address waits for the map lock.
C29_Witness ==
    /\ spc = "c_check" /\ rlMu = Sweeper /\ clMu[cur] = Sweeper
    /\ \E p \in Workers : pc[p] = "a_lock" /\ req[p].addr = cur

\* Searches and chats of one server, one request after the other, on an
\* empty collection.
LimitInit == HandlerInit /\ vectorSize = 1
LimitNext == SearchStep \/ ChatStep
LimitSpec == LimitInit /\ [][LimitNext]_vars

\* C30: whatever the configuration, a search that leaves top_k out (or
\* gives none above 0) and the retrieval of a chat pass the same limit to
\* the index, and that limit is 1 or more.
C30_SameLimit ==
    LET l == args.limits IN
    /\ l.search # NoLimit => AtMost(1, l.search)
    /\ l.chat # NoLimit => AtMost(1, l.chat)
    /\ (l.search # NoLimit /\ l.chat # NoLimit) => l.search = l.chat
====
